---------------------------- MODULE Spec2Model ----------------------------
(***************************************************************************)
(* Two-factor authentication of the admin backend: the TOTP utilities of   *)
(* src/utils/twoFactor-fallback.js (and the library-backed twin            *)
(* src/utils/twoFactor.js) and the account routes of src/routes/twoFactor.js*)
(* that store the secret, the enabled flag and the backup codes of a user. *)
(* Password policy: validatePasswordStrength of utils/sanitizer-fallback.js*)
(* and the password history, policy middleware and password suggestions   *)
(* of middleware/passwordPolicy.js that call it.                           *)
(*                                                                         *)
(* JavaScript strings are sequences of one-character strings; JavaScript   *)
(* values that may be of several types are records [t, s, a] (type tag,    *)
(* string content, array content).                                         *)
(***************************************************************************)
EXTENDS Integers, Sequences, FiniteSets, TLC

VARIABLES
    backupList,     \* the array object a caller passes to verifyBackupCode
    recoveryList,   \* the array object a caller passes to verifyRecoveryCode
    call,           \* the last utility call: function, arguments, result
    spent,          \* the (function, submitted code) pairs that returned valid=true
    now,            \* the server's clock, seconds since the epoch (Date.now() / 1000)
    totp,           \* the last verify2FAToken call: arguments, time, outcome
    utils,          \* the utility module the routes call: "fallback" or "speakeasy"
    user,           \* the account's row of table users: the 2FA columns
    res,            \* the last request handled: route, token, what the handler
                    \* found and answered, and the row it read (pre)
    gen,            \* the last generator call: function, argument, result
    derive,         \* the last call of a TOTP helper: function, arguments, outcome
    suggest,        \* the last generatePasswordSuggestions call: arguments, result
    strength,       \* the last validatePasswordStrength call: argument, result
    passwordHistory,\* the Map passwordHistory: user id -> array of passwords
    recorded,       \* per user id, every password handed to addPasswordToHistory,
                    \* oldest first (history of the run, not program state)
    maxHistory,     \* the maxHistory argument the caller passes to addPasswordToHistory
    lookup,         \* the last history call: function, arguments, result
    policy          \* the last request through passwordPolicyValidation

codeVars == <<backupList, recoveryList, call, spent>>
totpVars == <<totp>>
acctVars == <<utils, user, res>>
genVars == <<gen, derive, suggest>>
passwordVars == <<strength, passwordHistory, recorded, maxHistory, lookup, policy>>
vars == <<backupList, recoveryList, call, spent, now, totp, utils, user, res,
          gen, derive, suggest, strength, passwordHistory, recorded, maxHistory, lookup, policy>>

----------------------------------------------------------------------------
(* Bounds of the model *)

\* longest code list drawn for the code-consumption specification
MaxCodes == 3

\* the clock runs from BaseTime for MaxTicks ticks of TickSeconds seconds
MaxTicks == 4

\* largest window argument passed to verify2FAToken
MaxWindow == 2

\* the clock at the start, and one tick of it, in seconds
BaseTime == 1700000010
TickSeconds == 30

\* largest count passed to a code generator, and the longest entropy source
MaxCount == 4
MaxSource == 3

\* keys are cut from the random pool at offsets 1 .. MaxOffset
MaxOffset == 6

\* Math.random() yields r / RandomScale for r in 0 .. RandomScale - 1; the
\* longest password asked for; how far the shuffle may rotate a password
RandomScale == 8
MaxSuggestLength == 8
MaxRotate == 2

\* a password is drawn as at most MaxPieces pieces, padded to a length
MaxPieces == 3

\* passwords recorded per user id in the history specification, and the
\* largest maxHistory and historyCount arguments given there
MaxRecords == 3
MaxKeep == 3

\* password changes accepted for one user id in the policy specification
MaxChanges == 12

----------------------------------------------------------------------------
(* JavaScript values *)

Str(s) == [t |-> "string", s |-> s, a |-> <<>>]
Arr(a) == [t |-> "array", s |-> <<>>, a |-> a]
Null == [t |-> "null", s |-> <<>>, a |-> <<>>]
Undefined == [t |-> "undefined", s |-> <<>>, a |-> <<>>]
\* a number, an object literal: values with neither string nor array methods
Num == [t |-> "number", s |-> <<>>, a |-> <<>>]
Obj == [t |-> "object", s |-> <<>>, a |-> <<>>]

LowerAlphabet ==
    <<"a","b","c","d","e","f","g","h","i","j","k","l","m",
      "n","o","p","q","r","s","t","u","v","w","x","y","z">>
UpperAlphabet ==
    <<"A","B","C","D","E","F","G","H","I","J","K","L","M",
      "N","O","P","Q","R","S","T","U","V","W","X","Y","Z">>
DigitChars == <<"0","1","2","3","4","5","6","7","8","9">>
HexChars == <<"0","1","2","3","4","5","6","7","8","9","a","b","c","d","e","f">>
Whitespace == {" ", "\t", "\n"}

RangeOf(seq) == { seq[i] : i \in DOMAIN seq }

\* String.prototype.toUpperCase and toLowerCase, on one character and on a string
\* (f @@ <<>> is f, tabulated)
UpperOf == [c \in RangeOf(LowerAlphabet) |->
               UpperAlphabet[CHOOSE i \in DOMAIN LowerAlphabet : LowerAlphabet[i] = c]] @@ <<>>
LowerOf == [c \in RangeOf(UpperAlphabet) |->
               LowerAlphabet[CHOOSE i \in DOMAIN UpperAlphabet : UpperAlphabet[i] = c]] @@ <<>>
UpperChar(c) == IF c \in DOMAIN UpperOf THEN UpperOf[c] ELSE c
LowerChar(c) == IF c \in DOMAIN LowerOf THEN LowerOf[c] ELSE c
toUpperCase(s) == [i \in DOMAIN s |-> UpperChar(s[i])]
toLowerCase(s) == [i \in DOMAIN s |-> LowerChar(s[i])]

\* String.prototype.trim: drops the whitespace at both ends
trim(s) ==
    LET keep == { i \in DOMAIN s : s[i] \notin Whitespace }
    IN IF keep = {} THEN <<>>
       ELSE LET lo == CHOOSE i \in keep : \A j \in keep : i <= j
                hi == CHOOSE i \in keep : \A j \in keep : j <= i
            IN SubSeq(s, lo, hi)

\* Array.prototype.indexOf (strict equality): 0-based index of the first match, or -1
indexOf(arr, x) ==
    IF \E i \in DOMAIN arr : arr[i] = x
    THEN (CHOOSE i \in DOMAIN arr : arr[i] = x /\ \A j \in 1..(i-1) : arr[j] # x) - 1
    ELSE -1

\* Array.prototype.splice(index, 1): the array without the element at a 0-based index
splice1(arr, index) ==
    SubSeq(arr, 1, index) \o SubSeq(arr, index + 2, Len(arr))

----------------------------------------------------------------------------
(* crypto.randomBytes: the entropy source.  Each entry of RandomPool is a   *)
(* long random byte string.  A source e is a finite sequence of picks from *)
(* the pool, read cyclically: draw k yields `size` bytes of the entry e    *)
(* names at k, read one byte further on with every pass over e.  So the    *)
(* draws of one source differ, except where e names the same entry twice   *)
(* in a pass: independent draws may coincide, as those of crypto.randomBytes*)
(* may.                                                                    *)

RandomPool == << [i \in 1..40 |-> (161 + 17 * (i - 1)) % 256],
                 [i \in 1..40 |-> (59 * (i - 1) + 7 * ((i - 1) \div 4)) % 256] >>

Entropy == [1..1 -> DOMAIN RandomPool] \cup [1..2 -> DOMAIN RandomPool]

randomBytes(e, k, size) ==
    LET entry == RandomPool[e[((k - 1) % Len(e)) + 1]]
        pass == (k - 1) \div Len(e)
    IN SubSeq(entry, 1 + pass, size + pass)

\* Buffer.prototype.toString('hex'): two lower-case hex digits per byte
toHex(bytes) ==
    [i \in 1..(2 * Len(bytes)) |->
        LET b == bytes[(i + 1) \div 2]
        IN IF i % 2 = 1 THEN HexChars[(b \div 16) + 1] ELSE HexChars[(b % 16) + 1]]

generateBackupCodes_noUpperCase(count, e) ==
    [i \in 1..count |-> toHex(randomBytes(e, i, 4))]

\* generateBackupCodes(count): count codes, each 4 random bytes as upper-case hex
generateBackupCodes(count, e) ==
    [i \in 1..count |-> toUpperCase(toHex(randomBytes(e, i, 4)))]

\* generateRecoveryCodes(count): count codes, each three 3-byte groups joined by "-"
generateRecoveryCodes(count, e) ==
    [i \in 1..count |->
        LET part1 == toUpperCase(toHex(randomBytes(e, 3 * i - 2, 3)))
            part2 == toUpperCase(toHex(randomBytes(e, 3 * i - 1, 3)))
            part3 == toUpperCase(toHex(randomBytes(e, 3 * i, 3)))
        IN part1 \o <<"-">> \o part2 \o <<"-">> \o part3]

----------------------------------------------------------------------------
(* Code consumption.  A result carries the fields of the returned object   *)
(* (valid, error, remainingCodes, updated), whether the call threw, and    *)
(* `after`: the caller's array object once the call has returned (splice   *)
(* works in place).                                                        *)

CodeResult(valid, error, remaining, updated, after) ==
    [valid |-> valid, error |-> error, remainingCodes |-> remaining,
     updated |-> updated, threw |-> FALSE, after |-> after]

CodeThrow(after) ==
    [valid |-> FALSE, error |-> "TypeError", remainingCodes |-> -1,
     updated |-> Undefined, threw |-> TRUE, after |-> after]

\* verifyBackupCode whose removal drops every entry equal to the code
\* (backupCodes.filter in place of indexOf/splice)
verifyBackupCodeTry_removeAll(code, backupCodes) ==
    IF backupCodes.t # "array"
    THEN CodeResult(FALSE, "Invalid backup codes format", -1, Undefined, backupCodes)
    ELSE IF code.t # "string"
    THEN CodeThrow(backupCodes)
    ELSE LET normalizedCode == trim(toUpperCase(code.s))
             index == indexOf(backupCodes.a, normalizedCode)
         IN IF index = -1
            THEN CodeResult(FALSE, "Invalid backup code", -1, Undefined, backupCodes)
            ELSE LET kept == Arr(SelectSeq(backupCodes.a, LAMBDA c : c # normalizedCode))
                 IN CodeResult(TRUE, "", Len(kept.a), kept, kept)

\* verifyBackupCode that looks the code up as typed after trimming only
verifyBackupCodeTry_noUpperCase(code, backupCodes) ==
    IF backupCodes.t # "array"
    THEN CodeResult(FALSE, "Invalid backup codes format", -1, Undefined, backupCodes)
    ELSE IF code.t # "string"
    THEN CodeThrow(backupCodes)
    ELSE LET normalizedCode == trim(code.s)
             index == indexOf(backupCodes.a, normalizedCode)
         IN IF index = -1
            THEN CodeResult(FALSE, "Invalid backup code", -1, Undefined, backupCodes)
            ELSE LET spliced == Arr(splice1(backupCodes.a, index))
                 IN CodeResult(TRUE, "", Len(spliced.a), spliced, spliced)

\* verifyBackupCode without the Array.isArray test: a string argument is searched
\* with String.prototype.indexOf, any other value has no indexOf and throws
verifyBackupCodeTry_noArrayCheck(code, backupCodes) ==
    IF code.t # "string"
    THEN CodeThrow(backupCodes)
    ELSE IF backupCodes.t = "string"
    THEN CodeResult(FALSE, "Invalid backup code", -1, Undefined, backupCodes)
    ELSE IF backupCodes.t # "array"
    THEN CodeThrow(backupCodes)
    ELSE LET normalizedCode == trim(toUpperCase(code.s))
             index == indexOf(backupCodes.a, normalizedCode)
         IN IF index = -1
            THEN CodeResult(FALSE, "Invalid backup code", -1, Undefined, backupCodes)
            ELSE LET spliced == Arr(splice1(backupCodes.a, index))
                 IN CodeResult(TRUE, "", Len(spliced.a), spliced, spliced)

\* verifyBackupCode without the test index === -1: splice(-1, 1) drops the last
\* entry, and the code counts as valid
verifyBackupCodeTry_noMissCheck(code, backupCodes) ==
    IF backupCodes.t # "array"
    THEN CodeResult(FALSE, "Invalid backup codes format", -1, Undefined, backupCodes)
    ELSE IF code.t # "string"
    THEN CodeThrow(backupCodes)
    ELSE LET normalizedCode == trim(toUpperCase(code.s))
             index == indexOf(backupCodes.a, normalizedCode)
             spliced == IF index = -1
                        THEN Arr(SubSeq(backupCodes.a, 1, Len(backupCodes.a) - 1))
                        ELSE Arr(splice1(backupCodes.a, index))
         IN CodeResult(TRUE, "", Len(spliced.a), spliced, spliced)

\* the try block of verifyBackupCode; throws where the JavaScript would
verifyBackupCodeTry(code, backupCodes) ==
    IF backupCodes.t # "array"
    THEN CodeResult(FALSE, "Invalid backup codes format", -1, Undefined, backupCodes)
    ELSE IF code.t # "string"
    THEN CodeThrow(backupCodes)          \* code.toUpperCase is not a function
    ELSE LET normalizedCode == trim(toUpperCase(code.s))
             index == indexOf(backupCodes.a, normalizedCode)
         IN IF index = -1
            THEN CodeResult(FALSE, "Invalid backup code", -1, Undefined, backupCodes)
            ELSE LET spliced == Arr(splice1(backupCodes.a, index))
                 IN CodeResult(TRUE, "", Len(spliced.a), spliced, spliced)

\* verifyBackupCode(code, backupCodes): the try block and its catch
verifyBackupCode(code, backupCodes) ==
    LET r == verifyBackupCodeTry(code, backupCodes)
    IN IF r.threw
       THEN CodeResult(FALSE, "Failed to verify backup code", -1, Undefined, r.after)
       ELSE r

\* the try block of verifyRecoveryCode
verifyRecoveryCodeTry(code, recoveryCodes) ==
    IF recoveryCodes.t # "array"
    THEN CodeResult(FALSE, "Invalid recovery codes format", -1, Undefined, recoveryCodes)
    ELSE IF code.t # "string"
    THEN CodeThrow(recoveryCodes)
    ELSE LET normalizedCode == trim(toUpperCase(code.s))
             index == indexOf(recoveryCodes.a, normalizedCode)
         IN IF index = -1
            THEN CodeResult(FALSE, "Invalid recovery code", -1, Undefined, recoveryCodes)
            ELSE LET spliced == Arr(splice1(recoveryCodes.a, index))
                 IN CodeResult(TRUE, "", Len(spliced.a), spliced, spliced)

\* verifyRecoveryCode(code, recoveryCodes): the try block and its catch
verifyRecoveryCode(code, recoveryCodes) ==
    LET r == verifyRecoveryCodeTry(code, recoveryCodes)
    IN IF r.threw
       THEN CodeResult(FALSE, "Failed to verify recovery code", -1, Undefined, r.after)
       ELSE r

----------------------------------------------------------------------------
(* TOTP derivation (twoFactor-fallback.js).  An outcome is [threw, value]: *)
(* the value returned, or an exception leaving the function.               *)

\* timeStep of verify2FAToken, seconds
timeStep == 30

Base32Alphabet ==
    <<"A","B","C","D","E","F","G","H","I","J","K","L","M","N","O","P",
      "Q","R","S","T","U","V","W","X","Y","Z","2","3","4","5","6","7">>

\* alphabet.indexOf(c) for the characters of the alphabet, as a table
Base32Chars == RangeOf(Base32Alphabet)
Base32Index == [c \in Base32Chars |-> indexOf(Base32Alphabet, c)] @@ <<>>

Thrown == [threw |-> TRUE, value |-> Undefined, bytes |-> <<>>]
Returned(v) == [threw |-> FALSE, value |-> v, bytes |-> <<>>]

\* a 32-bit word as two 16-bit halves (the model checker's integers stop at
\* 2^31 - 1): value << 5 | charIndex, and (value >>> shift) & 0xff
Word0 == [hi |-> 0, lo |-> 0]
shiftIn5_saturating(w, charIndex) ==
    IF w.hi >= 2048
    THEN [hi |-> 65535, lo |-> 65535]
    ELSE [hi |-> w.hi * 32 + (w.lo * 32 + charIndex) \div 65536,
          lo |-> (w.lo * 32 + charIndex) % 65536]
shiftIn5(w, charIndex) ==
    LET lo32 == w.lo * 32 + charIndex
    IN [hi |-> (w.hi * 32 + lo32 \div 65536) % 65536, lo |-> lo32 % 65536]
byteAt(w, shift) ==
    ((w.lo \div (2 ^ shift)) + (w.hi % (2 ^ shift)) * (2 ^ (16 - shift))) % 256

\* the loop of base32Decode over the cleaned string, from character i on:
\* value (a 32-bit word), bits and the output so far are carried along
RECURSIVE base32Loop(_, _, _, _, _)
base32Loop(str, i, value, bits, output) ==
    IF i > Len(str) THEN output
    ELSE LET charIndex == Base32Index[str[i]]
             value1 == shiftIn5(value, charIndex)
             bits1 == bits + 5
         IN IF bits1 >= 8
            THEN base32Loop(str, i + 1, value1, bits1 - 8,
                            Append(output, byteAt(value1, bits1 - 8)))
            ELSE base32Loop(str, i + 1, value1, bits1, output)

\* base32Decode(str): upper-cases, drops every character outside A-Z2-7, decodes;
\* str.toUpperCase throws for a value that is no string
base32Decode(str) ==
    IF str.t # "string" THEN Thrown
    ELSE LET upper == toUpperCase(str.s)
             clean == SelectSeq(upper, LAMBDA c : c \in Base32Chars)
         IN [threw |-> FALSE, value |-> Undefined,
             bytes |-> base32Loop(clean, 1, Word0, 0, <<>>)]

\* the methods of the Hmac object crypto.createHmac returns that the code calls
\* or could call: Hmac has update and digest and no Buffer methods
HmacMethods == {"update", "digest"}

\* crypto's HMAC-SHA1 digest of a message under a key: 20 bytes.  The library
\* primitive is not computed bit for bit; the digest is a fixed function of
\* bytes of the key and bytes of the message (its last byte, where a counter's
\* low bits are, among them).
HmacSha1(key, message) ==
    LET keyLen == Len(key)
        messageLen == Len(message)
        kb(i) == IF keyLen = 0 THEN 0 ELSE key[((7 * i) % keyLen) + 1]
        mb(i) == message[((3 * i) % messageLen) + 1]
        last == message[messageLen]
    IN [i \in 1..20 |->
           (kb(i) * 31 + kb(i + 3) * 17 + last * (2 * i + 5) + mb(i) * 13
            + (kb(i) + 1) * (last + 1) + 7 * i * i + 11) % 256]

\* a string of exactly 6 decimal digits
Digits == RangeOf(DigitChars)
IsNumericToken(token) ==
    /\ token.t = "string"
    /\ Len(token.s) = 6
    /\ \A i \in DOMAIN token.s : token.s[i] \in Digits

\* Number.prototype.toString().padStart(6, '0') of a code below 1,000,000
padStart6(n) ==
    [i \in 1..6 |-> DigitChars[((n \div (10 ^ (6 - i))) % 10) + 1]]

\* dynamic truncation: the low 4 bits of the last byte index 4 bytes, read as a
\* 31-bit big-endian integer, reduced modulo 1,000,000 and zero-padded
dynamicTruncate(hash) ==
    LET offset == hash[Len(hash)] % 16
        code == (hash[offset + 1] % 128) * 16777216
                + hash[offset + 2] * 65536
                + hash[offset + 3] * 256
                + hash[offset + 4]
    IN padStart6(code % 1000000)

\* RFC 4648 base32 decoding as an authenticator app and speakeasy do it: byte j
\* is bits 8(j-1) .. 8j-1 of the string's characters read as 5-bit digits
Pow2 == [k \in 0..16 |-> 2 ^ k] @@ <<>>
Base32Bytes(str) ==
    <<>> \o [j \in 1..((5 * Len(str)) \div 8) |->
                LET p == 8 * (j - 1)
                    a == (p \div 5) + 1
                    w == Base32Index[str[a]] * 1024 + Base32Index[str[a + 1]] * 32
                         + (IF a + 2 <= Len(str) THEN Base32Index[str[a + 2]] ELSE 0)
                IN (w \div Pow2[7 - (p % 5)]) % 256]

\* the code an authenticator app (and speakeasy.totp of utils/twoFactor.js)
\* derives from a secret and a time counter: HMAC-SHA1 of the counter as 8
\* big-endian bytes under the decoded key, dynamically truncated
hotpCode(key, counter) ==
    LET message == <<0, 0, 0, 0>> \o
                   [i \in 1..4 |-> (counter \div (256 ^ (4 - i))) % 256]
    IN Str(dynamicTruncate(HmacSha1(key, message)))

totpKey(secret) ==
    Base32Bytes(SelectSeq(toUpperCase(secret.s), LAMBDA c : c \in Base32Chars))

totpCode(secret, timeCounter) ==
    IF secret.t # "string" THEN Thrown
    ELSE Returned(hotpCode(totpKey(secret), timeCounter))

\* the codes of a set of counters
totpCodesWith(key, counters) == { hotpCode(key, c) : c \in counters }
totpCodes(secret, counters) == totpCodesWith(totpKey(secret), counters)

\* generateTOTP(secret, timeCounter): decodes the key, updates the HMAC with a
\* buffer of 8 zero bytes, then calls hmac.writeUInt32BE(timeCounter, 4), which
\* Hmac does not have: a TypeError leaves the function before the digest is taken
generateTOTP(secret, timeCounter) ==
    LET key == base32Decode(secret)
    IN IF key.threw THEN Thrown
       ELSE LET message == [i \in 1..8 |-> 0]
            IN IF "writeUInt32BE" \notin HmacMethods THEN Thrown
               ELSE Returned(Str(dynamicTruncate(HmacSha1(key.bytes, message))))

NoTotp == [called |-> FALSE, token |-> Undefined, secret |-> Undefined,
           window |-> 0, at |-> 0, outcome |-> Returned(FALSE)]

\* the for loop of verify2FAToken from offset i on
RECURSIVE verifyLoop(_, _, _, _, _)
verifyLoop(token, secret, timeCounter, i, window) ==
    IF i > window THEN Returned(FALSE)
    ELSE LET expectedToken == generateTOTP(secret, timeCounter + i)
         IN IF expectedToken.threw THEN Thrown
            ELSE IF expectedToken.value = token THEN Returned(TRUE)
            ELSE verifyLoop(token, secret, timeCounter, i + 1, window)

\* the try block of verify2FAToken at clock time t (seconds since the epoch)
verify2FATokenTry(token, secret, window, t) ==
    LET currentTime == t
        timeCounter == currentTime \div timeStep
    IN verifyLoop(token, secret, timeCounter, -window, window)

\* verify2FAToken without its try/catch: an exception reaches the caller
verify2FAToken_noCatch(token, secret, window, t) ==
    verify2FATokenTry(token, secret, window, t)

\* verify2FAToken(token, secret, window): the try block and its catch
verify2FAToken(token, secret, window, t) ==
    LET r == verify2FATokenTry(token, secret, window, t)
    IN IF r.threw THEN Returned(FALSE) ELSE r

----------------------------------------------------------------------------
(* Secret generation *)

Base64Alphabet == UpperAlphabet \o LowerAlphabet \o DigitChars \o <<"+", "/">>

\* Buffer.prototype.toString('base64'): 4 characters per 3 bytes, "=" padding
toBase64(bytes) ==
    LET n == Len(bytes)
        at(k) == IF k <= n THEN bytes[k] ELSE 0
    IN [j \in 1..(4 * ((n + 2) \div 3)) |->
           LET g == (j - 1) \div 4
               pos == (j - 1) % 4
               n24 == at(3 * g + 1) * 65536 + at(3 * g + 2) * 256 + at(3 * g + 3)
           IN IF (pos = 2 /\ 3 * g + 2 > n) \/ (pos = 3 /\ 3 * g + 3 > n)
              THEN "="
              ELSE Base64Alphabet[((n24 \div (64 ^ (3 - pos))) % 64) + 1]]

\* RFC 4648 base32 without padding: 5 bits per character, most significant first
toBase32(bytes) ==
    LET n == Len(bytes)
        at(k) == IF k <= n THEN bytes[k] ELSE 0
    IN [j \in 1..((8 * n + 4) \div 5) |->
           LET p == 5 * (j - 1)
               w == at((p \div 8) + 1) * 256 + at((p \div 8) + 2)
           IN Base32Alphabet[((w \div (2 ^ (11 - (p % 8)))) % 32) + 1]]

\* the provisioning URI, by its parts
OtpauthUrl(label, secret) ==
    [scheme |-> "otpauth://totp/", label |-> label, secret |-> secret,
     issuer |-> "Seen%20Group"]

\* generate2FASecret of twoFactor-fallback.js: 20 random bytes as base64 with
\* the characters + / = removed
generate2FASecret(userEmail, e) ==
    LET secret == SelectSeq(toBase64(randomBytes(e, 1, 20)),
                            LAMBDA c : c \notin {"+", "/", "="})
    IN [secret |-> secret,
        qrCodeUrl |-> OtpauthUrl(userEmail, secret),
        manualEntryKey |-> secret]

\* generate2FASecret of twoFactor.js: speakeasy.generateSecret({length: 32})
\* draws a 32-byte key and returns its base32 form
speakeasy_generate2FASecret(userEmail, e) ==
    LET secret == toBase32(randomBytes(e, 1, 32))
    IN [secret |-> secret,
        qrCodeUrl |-> OtpauthUrl(userEmail, secret),
        manualEntryKey |-> secret]

\* verify2FAToken of twoFactor.js: speakeasy.totp.verify with base32 encoding
\* accepts a token equal to the code of a counter at most `window` steps from
\* the current one; whatever it throws is caught.  Tokens that are strings but
\* no 6 digits are refused (the routes let none through).
speakeasy_verify2FAToken(token, secret, window, t) ==
    IF secret.t # "string" \/ token.t # "string" THEN Returned(FALSE)
    ELSE IF ~IsNumericToken(token) THEN Returned(FALSE)
    ELSE Returned(token \in totpCodes(secret, { (t \div timeStep) + offset :
                                                  offset \in (0 - window)..window }))

\* the utility module in use
Generate2FASecretOf(u, userEmail, e) ==
    IF u = "fallback" THEN generate2FASecret(userEmail, e)
    ELSE speakeasy_generate2FASecret(userEmail, e)

Verify2FATokenOf(u, token, secret, window, t) ==
    IF u = "fallback" THEN verify2FAToken(token, secret, window, t)
    ELSE speakeasy_verify2FAToken(token, secret, window, t)

----------------------------------------------------------------------------
(* The account's row and the database *)

\* defaults of generateBackupCodes, generateRecoveryCodes and verify2FAToken
DefaultBackupCount == 10
DefaultRecoveryCount == 8
DefaultWindow == 1

\* a TEXT column: SQL NULL, or the text JSON.stringify made of a value
SqlNull == [isNull |-> TRUE, json |-> Undefined]
JSONstringify(v) == [isNull |-> FALSE, json |-> v]
JSONparse(text) == text.json

\* the row prisma.users.create writes for a new account: twoFactorEnabled
\* defaults to false, twoFactorSecret to NULL, backupCodes is '[]'
FreshUser == [twoFactorEnabled |-> FALSE, twoFactorSecret |-> Null,
              backupCodes |-> JSONstringify(Arr(<<>>))]

\* truthiness of a string-or-null value, of an array-or-null value, of a column
TruthyString(v) == v.t = "string" /\ v.s # <<>>
TruthyArray(v) == v.t = "array"
TruthyText(text) == ~text.isNull

\* prisma.users.update: the row after the update, or an exception when the
\* data breaks a constraint of the table (backupCodes is TEXT NOT NULL)
usersUpdate(row, newRow) ==
    IF newRow.backupCodes.isNull
    THEN [threw |-> TRUE, row |-> row]
    ELSE [threw |-> FALSE, row |-> newRow]

\* is2FAConfigured(user)
is2FAConfigured(row) == row.twoFactorEnabled /\ TruthyString(row.twoFactorSecret)

NoData == [secret |-> Undefined, backupCodes |-> Undefined, recoveryCodes |-> Undefined,
           enabled |-> Undefined, configured |-> Undefined]

\* a response, with what the handler saw: the token submitted, the results of
\* the TOTP and backup-code checks, the row read
Res(route, status, error, token, totpOk, backupOk, pre, data) ==
    [route |-> route, status |-> status, error |-> error, token |-> token,
     totpOk |-> totpOk, backupOk |-> backupOk, pre |-> pre, data |-> data]

NoRes == Res("none", 0, "", Undefined, FALSE, FALSE, FreshUser, NoData)

\* the validators of the token routes: isLength({min: 6, max: 6}) and isNumeric
\* (of the tokens submitted here the numeric ones are the strings of digits)
validationPasses(token) == IsNumericToken(token)

UserEmail == "admin@seengroup.com"

----------------------------------------------------------------------------
(* Specification of the code-consumption functions: a caller holds a list  *)
(* of backup codes and a list of recovery codes, as generated (or, for the *)
(* input validation, a value that is no array), and submits codes.         *)

\* the user ids of the accounts whose passwords are tracked
UserIds == {"u1", "u2"}

\* no generator call made yet
NoGen == [fn |-> "none", count |-> [given |-> FALSE, n |-> 0], email |-> <<>>,
          secret |-> <<>>, url |-> OtpauthUrl(<<>>, <<>>), key |-> <<>>, codes |-> <<>>]

\* no TOTP helper called yet
NoDerive == [fn |-> "none", key |-> <<>>, counter |-> 0, secret |-> Undefined,
             outcome |-> Returned(FALSE)]

\* no suggestions asked for yet
NoSuggest == [fn |-> "none", length |-> [given |-> FALSE, n |-> 0],
              count |-> [given |-> FALSE, n |-> 0], random |-> <<>>,
              shuffle |-> [rotate |-> 0, reverse |-> FALSE], suggestions |-> <<>>]

GenIdle == gen = NoGen /\ derive = NoDerive /\ suggest = NoSuggest

\* const passwordHistory = new Map(): no history for any user id
\* (passwordHistory.get(userId) || [] is the empty array for an absent key)
NoHistory == [u \in UserIds |-> <<>>]
NoStrength == [called |-> FALSE, password |-> Undefined, threw |-> FALSE,
               isValid |-> FALSE, errors |-> <<>>, strength |-> "undefined"]
NoLookup == [fn |-> "none", userId |-> "", password |-> Undefined,
             limit |-> [given |-> FALSE, n |-> 0], before |-> NoHistory, result |-> FALSE]
NoPolicy == [tier |-> "none", called |-> FALSE, userId |-> "", password |-> Undefined,
             next |-> FALSE, status |-> 0, error |-> "", details |-> <<>>,
             strength |-> "undefined"]
PasswordIdle ==
    /\ strength = NoStrength
    /\ passwordHistory = NoHistory
    /\ recorded = NoHistory
    /\ maxHistory = [given |-> FALSE, n |-> 0]
    /\ lookup = NoLookup
    /\ policy = NoPolicy

NoCall == [fn |-> "none", code |-> Undefined, before |-> Undefined,
           result |-> CodeResult(FALSE, "", -1, Undefined, Undefined)]

\* what may be passed as the list argument: a generated list, or no array at all
NonArrays == {Null, Undefined, Obj, Str(<<"[", "]">>)}

\* a code as a user may type it: as issued, lower-cased, padded with whitespace
Typed(c) == { Str(c), Str(toLowerCase(c)), Str(<<" ">> \o toLowerCase(c) \o <<"\n">>) }

\* a code that was never issued, and values that are no strings
Strangers == { Str(<<"F","F","F","F","F","F","F","F">>), Null }

Submittable(list) ==
    Strangers \cup (IF list.t = "array" THEN UNION { Typed(list.a[i]) : i \in DOMAIN list.a }
                    ELSE {})

CodesInit ==
    /\ \/ \E n \in 0..MaxCodes, e \in Entropy :
            \/ /\ backupList = Arr(generateBackupCodes(n, e))
               /\ recoveryList = Arr(<<>>)
            \/ /\ backupList = Arr(<<>>)
               /\ recoveryList = Arr(generateRecoveryCodes(n, e))
       \/ \E v \in NonArrays : backupList = v /\ recoveryList = v
    /\ call = NoCall
    /\ spent = {}
    /\ now = BaseTime
    /\ totp = NoTotp
    /\ utils = "fallback"
    /\ user = FreshUser
    /\ res = NoRes
    /\ GenIdle
    /\ PasswordIdle

\* Submittable is taken of the list as issued or as it stands: a consumed code
\* can be typed again
VerifyBackup ==
    \E code \in Submittable(backupList) \cup { x.code : x \in spent } :
        LET r == verifyBackupCode(code, backupList)
        IN /\ call' = [fn |-> "verifyBackupCode", code |-> code,
                       before |-> backupList, result |-> r]
           /\ backupList' = r.after
           /\ spent' = IF r.valid
                       THEN spent \cup {[fn |-> "verifyBackupCode", code |-> code]}
                       ELSE spent
           /\ UNCHANGED <<recoveryList, now, totp, acctVars, genVars, passwordVars>>

VerifyRecovery ==
    \E code \in Submittable(recoveryList) \cup { x.code : x \in spent } :
        LET r == verifyRecoveryCode(code, recoveryList)
        IN /\ call' = [fn |-> "verifyRecoveryCode", code |-> code,
                       before |-> recoveryList, result |-> r]
           /\ recoveryList' = r.after
           /\ spent' = IF r.valid
                       THEN spent \cup {[fn |-> "verifyRecoveryCode", code |-> code]}
                       ELSE spent
           /\ UNCHANGED <<backupList, now, totp, acctVars, genVars, passwordVars>>

CodesNext == VerifyBackup \/ VerifyRecovery

SpecCodes == CodesInit /\ [][CodesNext]_vars

----------------------------------------------------------------------------
(* Specification of token verification: an authenticator holds a secret and *)
(* derives the code of its clock; the server verifies a submitted token    *)
(* against a secret at its own clock, which runs on.                       *)

\* base32 secrets
Secrets == { Str(<<"J","B","S","W","Y","3","D","P">>),
             Str(<<"G","E","Z","D","G","N","B","V">>) }

\* values that are no base32 secret: no string at all, or a string with
\* characters outside the alphabet
MalformedSecrets == { Null, Undefined, Str(<<"J","B","!","1","=","=">>) }

\* tokens that are no 6-digit numbers
NonNumericTokens == { Str(<<"1","2","a","b","5","6">>), Str(<<"a","b","c","d","e","f">>),
                      Null, Num }

ClockTimes == { BaseTime + k * TickSeconds : k \in 0..MaxTicks }

\* what a user may submit for a secret: the code of an authenticator whose
\* clock shows any of ClockTimes, or something that is no code
TokensFor(secret) ==
    NonNumericTokens \cup
    (IF secret.t = "string"
     THEN { totpCode(secret, t \div timeStep).value : t \in ClockTimes }
     ELSE { Str(<<"1","2","3","4","5","6">>) })

TotpInit ==
    /\ now = BaseTime
    /\ \E secret \in Secrets \cup MalformedSecrets :
         \E token \in TokensFor(secret) :
            totp = [NoTotp EXCEPT !.token = token, !.secret = secret]
    /\ backupList = Arr(<<>>)
    /\ recoveryList = Arr(<<>>)
    /\ call = NoCall
    /\ spent = {}
    /\ utils = "fallback"
    /\ user = FreshUser
    /\ res = NoRes
    /\ GenIdle
    /\ PasswordIdle

Tick ==
    /\ now < BaseTime + MaxTicks * TickSeconds
    /\ now' = now + TickSeconds

ClockTick == Tick /\ UNCHANGED <<codeVars, totp, acctVars, genVars, passwordVars>>

\* the server verifies the submitted token against the secret at its clock
Verify2FA ==
    \E window \in 0..MaxWindow :
        /\ totp' = [totp EXCEPT !.called = TRUE, !.window = window, !.at = now,
                       !.outcome = verify2FAToken(totp.token, totp.secret, window, now)]
        /\ UNCHANGED <<codeVars, now, acctVars, genVars, passwordVars>>

TotpNext == ClockTick \/ Verify2FA

SpecTotp == TotpInit /\ [][TotpNext]_vars

----------------------------------------------------------------------------
(* The 2FA routes (routes/twoFactor.js).  A handler is an operator from    *)
(* the row read and the request to the row written and the response.       *)

Handled(row, response) == [user |-> row, res |-> response]

\* GET /status
StatusHandler(row) ==
    Handled(row, Res("status", 200, "", Undefined, FALSE, FALSE, row,
                     [NoData EXCEPT !.enabled = row.twoFactorEnabled,
                                    !.configured = is2FAConfigured(row)]))

\* POST /setup without the test of twoFactorEnabled
SetupHandler_noEnabledCheck(u, row, e) ==
    LET secretData == Generate2FASecretOf(u, UserEmail, e)
        upd == usersUpdate(row, [row EXCEPT !.twoFactorSecret = Str(secretData.secret)])
    IN IF upd.threw
       THEN Handled(row, Res("setup", 500, "Failed to start 2FA setup",
                             Undefined, FALSE, FALSE, row, NoData))
       ELSE Handled(upd.row,
                    Res("setup", 200, "", Undefined, FALSE, FALSE, row,
                        [NoData EXCEPT !.secret = Str(secretData.secret)]))

\* POST /setup
SetupHandler(u, row, e) ==
    IF row.twoFactorEnabled
    THEN Handled(row, Res("setup", 400, "2FA is already enabled for this account",
                          Undefined, FALSE, FALSE, row, NoData))
    ELSE LET secretData == Generate2FASecretOf(u, UserEmail, e)
             upd == usersUpdate(row, [row EXCEPT !.twoFactorSecret = Str(secretData.secret)])
         IN IF upd.threw
            THEN Handled(row, Res("setup", 500, "Failed to start 2FA setup",
                                  Undefined, FALSE, FALSE, row, NoData))
            ELSE Handled(upd.row,
                         Res("setup", 200, "", Undefined, FALSE, FALSE, row,
                             [NoData EXCEPT !.secret = Str(secretData.secret)]))

\* POST /verify without the test of verify2FAToken's result
VerifyHandler_noTokenCheck(u, row, token, t, eb, er) ==
    IF ~validationPasses(token)
    THEN Handled(row, Res("verify", 400, "Validation failed", token, FALSE, FALSE, row, NoData))
    ELSE IF row.twoFactorEnabled
    THEN Handled(row, Res("verify", 400, "2FA is already enabled", token, FALSE, FALSE, row, NoData))
    ELSE IF ~TruthyString(row.twoFactorSecret)
    THEN Handled(row, Res("verify", 400, "No 2FA secret found. Please start 2FA setup first.",
                          token, FALSE, FALSE, row, NoData))
    ELSE LET isValid == Verify2FATokenOf(u, token, row.twoFactorSecret, DefaultWindow, t).value
             backupCodes == generateBackupCodes(DefaultBackupCount, eb)
             recoveryCodes == generateRecoveryCodes(DefaultRecoveryCount, er)
             upd == usersUpdate(row, [row EXCEPT !.twoFactorEnabled = TRUE,
                                                 !.backupCodes = JSONstringify(Arr(backupCodes))])
         IN IF upd.threw
            THEN Handled(row, Res("verify", 500, "Failed to verify 2FA token",
                                  token, isValid, FALSE, row, NoData))
            ELSE Handled(upd.row,
                         Res("verify", 200, "", token, isValid, FALSE, row,
                             [NoData EXCEPT !.backupCodes = Arr(backupCodes),
                                            !.recoveryCodes = Arr(recoveryCodes)]))

\* POST /verify
VerifyHandler(u, row, token, t, eb, er) ==
    IF ~validationPasses(token)
    THEN Handled(row, Res("verify", 400, "Validation failed", token, FALSE, FALSE, row, NoData))
    ELSE IF row.twoFactorEnabled
    THEN Handled(row, Res("verify", 400, "2FA is already enabled", token, FALSE, FALSE, row, NoData))
    ELSE IF ~TruthyString(row.twoFactorSecret)
    THEN Handled(row, Res("verify", 400, "No 2FA secret found. Please start 2FA setup first.",
                          token, FALSE, FALSE, row, NoData))
    ELSE LET isValid == Verify2FATokenOf(u, token, row.twoFactorSecret, DefaultWindow, t).value
         IN IF ~isValid
            THEN Handled(row, Res("verify", 400, "Invalid verification token",
                                  token, FALSE, FALSE, row, NoData))
            ELSE LET backupCodes == generateBackupCodes(DefaultBackupCount, eb)
                     recoveryCodes == generateRecoveryCodes(DefaultRecoveryCount, er)
                     upd == usersUpdate(row, [row EXCEPT !.twoFactorEnabled = TRUE,
                                                         !.backupCodes = JSONstringify(Arr(backupCodes))])
                 IN IF upd.threw
                    THEN Handled(row, Res("verify", 500, "Failed to verify 2FA token",
                                          token, TRUE, FALSE, row, NoData))
                    ELSE Handled(upd.row,
                                 Res("verify", 200, "", token, TRUE, FALSE, row,
                                     [NoData EXCEPT !.backupCodes = Arr(backupCodes),
                                                    !.recoveryCodes = Arr(recoveryCodes)]))

\* the token check shared by POST /disable and POST /verify-login: the TOTP
\* token first (when a secret is stored) ...
TotpCheck(u, row, token, t) ==
    IF TruthyString(row.twoFactorSecret)
    THEN Verify2FATokenOf(u, token, row.twoFactorSecret, DefaultWindow, t).value
    ELSE FALSE

\* ... then a backup code (when the TOTP check failed and the column holds a text)
BackupCheck(row, token, totpOk) ==
    IF ~totpOk /\ TruthyText(row.backupCodes)
    THEN verifyBackupCode(token, JSONparse(row.backupCodes))
    ELSE CodeResult(FALSE, "", -1, Null, Undefined)

\* isValid and updatedBackupCodes once both checks are done
Checked(totpOk, backupResult) ==
    [totpOk |-> totpOk, backupOk |-> backupResult.valid,
     isValid |-> totpOk \/ backupResult.valid,
     updatedBackupCodes |-> IF backupResult.valid THEN backupResult.updated ELSE Null]

TokenOrBackupWith(row, token, totpOk) == Checked(totpOk, BackupCheck(row, token, totpOk))

TokenOrBackup(u, row, token, t) == TokenOrBackupWith(row, token, TotpCheck(u, row, token, t))

\* POST /disable once the token is checked: the update that clears the account
DisableChecked(row, token, chk, upd) ==
    IF ~chk.isValid
    THEN Handled(row, Res("disable", 400, "Invalid token or backup code",
                          token, FALSE, FALSE, row, NoData))
    ELSE IF upd.threw
    THEN Handled(row, Res("disable", 500, "Failed to disable 2FA",
                          token, chk.totpOk, chk.backupOk, row, NoData))
    ELSE Handled(upd.row, Res("disable", 200, "", token, chk.totpOk, chk.backupOk, row, NoData))

DisableUpdate_secretOnly(row, chk) ==
    usersUpdate(row, [row EXCEPT !.twoFactorSecret = Null])

DisableUpdate(row, chk) ==
    usersUpdate(row, [twoFactorEnabled |-> FALSE,
                      twoFactorSecret |-> Null,
                      backupCodes |-> IF TruthyArray(chk.updatedBackupCodes)
                                      THEN JSONstringify(chk.updatedBackupCodes)
                                      ELSE SqlNull])

DisableWith(row, token, chk) == DisableChecked(row, token, chk, DisableUpdate(row, chk))

\* POST /disable
DisableHandler(u, row, token, t) ==
    IF ~validationPasses(token)
    THEN Handled(row, Res("disable", 400, "Validation failed", token, FALSE, FALSE, row, NoData))
    ELSE IF ~row.twoFactorEnabled
    THEN Handled(row, Res("disable", 400, "2FA is not enabled for this account",
                          token, FALSE, FALSE, row, NoData))
    ELSE DisableWith(row, token, TokenOrBackup(u, row, token, t))

\* POST /verify-login once the token is checked: a used backup code is removed
\* from the stored list
VerifyLoginWith(row, token, chk) ==
    IF ~chk.isValid
    THEN Handled(row, Res("verify-login", 400, "Invalid 2FA token or backup code",
                          token, FALSE, FALSE, row, NoData))
    ELSE IF chk.backupOk
    THEN Handled(usersUpdate(row, [row EXCEPT !.backupCodes =
                                       JSONstringify(chk.updatedBackupCodes)]).row,
                 Res("verify-login", 200, "", token, chk.totpOk, chk.backupOk, row, NoData))
    ELSE Handled(row, Res("verify-login", 200, "", token, chk.totpOk, chk.backupOk, row, NoData))

\* POST /verify-login
VerifyLoginHandler(u, row, token, t) ==
    IF ~validationPasses(token)
    THEN Handled(row, Res("verify-login", 400, "Validation failed", token, FALSE, FALSE, row, NoData))
    ELSE IF ~row.twoFactorEnabled
    THEN Handled(row, Res("verify-login", 400, "2FA is not enabled for this account",
                          token, FALSE, FALSE, row, NoData))
    ELSE VerifyLoginWith(row, token, TokenOrBackup(u, row, token, t))

\* GET /backup-codes
BackupCodesHandler(row) ==
    IF ~row.twoFactorEnabled
    THEN Handled(row, Res("backup-codes", 400, "2FA is not enabled for this account",
                          Undefined, FALSE, FALSE, row, NoData))
    ELSE Handled(row, Res("backup-codes", 200, "", Undefined, FALSE, FALSE, row,
                          [NoData EXCEPT !.backupCodes =
                               IF TruthyText(row.backupCodes)
                               THEN JSONparse(row.backupCodes) ELSE Arr(<<>>)]))

\* POST /regenerate-backup-codes adding the new codes to the stored ones
RegenerateHandler_append(u, row, token, t, eb) ==
    IF ~validationPasses(token)
    THEN Handled(row, Res("regenerate-backup-codes", 400, "Validation failed",
                          token, FALSE, FALSE, row, NoData))
    ELSE IF ~row.twoFactorEnabled
    THEN Handled(row, Res("regenerate-backup-codes", 400, "2FA is not enabled for this account",
                          token, FALSE, FALSE, row, NoData))
    ELSE LET isValid == Verify2FATokenOf(u, token, row.twoFactorSecret, DefaultWindow, t).value
         IN IF ~isValid
            THEN Handled(row, Res("regenerate-backup-codes", 400, "Invalid verification token",
                                  token, FALSE, FALSE, row, NoData))
            ELSE LET newBackupCodes == generateBackupCodes(DefaultBackupCount, eb)
                     upd == usersUpdate(row, [row EXCEPT !.backupCodes =
                                JSONstringify(Arr(JSONparse(row.backupCodes).a \o newBackupCodes))])
                 IN IF upd.threw
                    THEN Handled(row, Res("regenerate-backup-codes", 500,
                                          "Failed to regenerate backup codes",
                                          token, TRUE, FALSE, row, NoData))
                    ELSE Handled(upd.row,
                                 Res("regenerate-backup-codes", 200, "", token, TRUE, FALSE, row,
                                     [NoData EXCEPT !.backupCodes = Arr(newBackupCodes)]))

\* POST /regenerate-backup-codes
RegenerateHandler(u, row, token, t, eb) ==
    IF ~validationPasses(token)
    THEN Handled(row, Res("regenerate-backup-codes", 400, "Validation failed",
                          token, FALSE, FALSE, row, NoData))
    ELSE IF ~row.twoFactorEnabled
    THEN Handled(row, Res("regenerate-backup-codes", 400, "2FA is not enabled for this account",
                          token, FALSE, FALSE, row, NoData))
    ELSE LET isValid == Verify2FATokenOf(u, token, row.twoFactorSecret, DefaultWindow, t).value
         IN IF ~isValid
            THEN Handled(row, Res("regenerate-backup-codes", 400, "Invalid verification token",
                                  token, FALSE, FALSE, row, NoData))
            ELSE LET newBackupCodes == generateBackupCodes(DefaultBackupCount, eb)
                     upd == usersUpdate(row, [row EXCEPT !.backupCodes =
                                                  JSONstringify(Arr(newBackupCodes))])
                 IN IF upd.threw
                    THEN Handled(row, Res("regenerate-backup-codes", 500,
                                          "Failed to regenerate backup codes",
                                          token, TRUE, FALSE, row, NoData))
                    ELSE Handled(upd.row,
                                 Res("regenerate-backup-codes", 200, "", token, TRUE, FALSE, row,
                                     [NoData EXCEPT !.backupCodes = Arr(newBackupCodes)]))

----------------------------------------------------------------------------
(* Specification of the routes: one account, requests handled one at a     *)
(* time, the clock advancing between them.  routes/twoFactor.js imports    *)
(* its functions from utils/twoFactor-fallback.js (Spec); the module the   *)
(* fallback stands in for, utils/twoFactor.js, exports the same functions  *)
(* over speakeasy (SpecLibrary).                                           *)

\* the random bytes drawn for a secret and for the codes issued with one
\* response
SecretEntropy == { <<1>>, <<2>> }
BatchEntropy == { <<1>>, <<2>> }

\* how far (in time steps) an authenticator's clock may be off
TokenOffsets == {-2, 0, 1}

\* the backup codes stored in a row
StoredCodes(row) ==
    IF TruthyText(row.backupCodes) /\ JSONparse(row.backupCodes).t = "array"
    THEN JSONparse(row.backupCodes).a ELSE <<>>

\* what a client may submit as token: nothing, something that is no number,
\* the code an authenticator shows for the stored secret, a number that is no
\* such code, a stored backup code
RequestTokens(row, t) ==
    { Undefined, Str(<<"1","2","a","b","5","6">>) }
    \cup (IF TruthyString(row.twoFactorSecret)
          THEN totpCodes(row.twoFactorSecret, { (t \div timeStep) + d : d \in TokenOffsets })
          ELSE { Str(<<"1","2","3","4","5","6">>) })
    \cup (IF StoredCodes(row) # <<>> THEN { Str(StoredCodes(row)[1]) } ELSE {})

Routes == {"status", "setup", "verify", "disable", "verify-login", "backup-codes",
           "regenerate-backup-codes"}

InitOf(u) ==
    /\ utils = u
    /\ user = FreshUser
    /\ res = NoRes
    /\ now = BaseTime
    /\ totp = NoTotp
    /\ backupList = Arr(<<>>)
    /\ recoveryList = Arr(<<>>)
    /\ call = NoCall
    /\ spent = {}
    /\ GenIdle
    /\ PasswordIdle

Init == InitOf("fallback")
InitLibrary == InitOf("speakeasy")

\* the limiter lets the request through: the handler's row and response
Respond(h) ==
    /\ user' = h.user
    /\ res' = h.res
    /\ UNCHANGED <<codeVars, totp, now, utils, genVars, passwordVars>>

\* the rate limiter (10 requests per 15 minutes, before every route) answers
\* 429 itself.  Its count is not tracked: any request may be one too many.
RateLimited ==
    /\ \E route \in Routes :
         res' = Res(route, 429, "Too many 2FA attempts, please try again later.",
                    Undefined, FALSE, FALSE, user, NoData)
    /\ UNCHANGED <<codeVars, totp, now, utils, user, genVars, passwordVars>>

StatusRoute == Respond(StatusHandler(user))

SetupRoute == \E e \in SecretEntropy : Respond(SetupHandler(utils, user, e))

BackupCodesRoute == Respond(BackupCodesHandler(user))

VerifyRoute ==
    \E token \in RequestTokens(user, now) : \E e \in BatchEntropy :
        Respond(VerifyHandler(utils, user, token, now, e, e))

DisableRoute ==
    \E token \in RequestTokens(user, now) : Respond(DisableHandler(utils, user, token, now))

VerifyLoginRoute ==
    \E token \in RequestTokens(user, now) : Respond(VerifyLoginHandler(utils, user, token, now))

RegenerateRoute ==
    \E token \in RequestTokens(user, now) : \E e \in BatchEntropy :
        Respond(RegenerateHandler(utils, user, token, now, e))

Next ==
    \/ ClockTick
    \/ RateLimited
    \/ StatusRoute
    \/ SetupRoute
    \/ BackupCodesRoute
    \/ VerifyRoute
    \/ DisableRoute
    \/ VerifyLoginRoute
    \/ RegenerateRoute

Spec == Init /\ [][Next]_vars

SpecLibrary == InitLibrary /\ [][Next]_vars

----------------------------------------------------------------------------
(* The generators called on their own: generate2FASecret, generateBackupCodes *)
(* and generateRecoveryCodes of twoFactor-fallback.js.                      *)

\* the 2FA variables while no 2FA function or route is called
TwoFactorIdle ==
    /\ backupList = Arr(<<>>)
    /\ recoveryList = Arr(<<>>)
    /\ call = NoCall
    /\ spent = {}
    /\ now = BaseTime
    /\ totp = NoTotp
    /\ utils = "fallback"
    /\ user = FreshUser
    /\ res = NoRes

\* what crypto.randomBytes may yield over the calls of one generator call
GenEntropy == UNION { [1..n -> DOMAIN RandomPool] : n \in 1..MaxSource }

\* the count argument: a number, or no argument (the default parameter applies)
NoCount == [given |-> FALSE, n |-> 0]
Counts == { [given |-> TRUE, n |-> n] : n \in 0..MaxCount } \cup { NoCount }
backupCount(arg) == IF arg.given THEN arg.n ELSE DefaultBackupCount
recoveryCount(arg) == IF arg.given THEN arg.n ELSE DefaultRecoveryCount

Emails == { <<"a", "@", "b", ".", "c", "o", "m">>, <<"x", "@", "y", ".", "i", "o">> }

GenInit == TwoFactorIdle /\ GenIdle /\ PasswordIdle

GenerateSecret ==
    /\ \E userEmail \in Emails, e \in GenEntropy :
          LET r == generate2FASecret(userEmail, e)
          IN gen' = [NoGen EXCEPT !.fn = "generate2FASecret", !.email = userEmail,
                        !.secret = r.secret, !.url = r.qrCodeUrl, !.key = r.manualEntryKey]
    /\ UNCHANGED <<codeVars, now, totpVars, acctVars, derive, suggest, passwordVars>>

GenerateBackupCodes ==
    /\ \E count \in Counts, e \in GenEntropy :
          gen' = [NoGen EXCEPT !.fn = "generateBackupCodes", !.count = count,
                     !.codes = generateBackupCodes(backupCount(count), e)]
    /\ UNCHANGED <<codeVars, now, totpVars, acctVars, derive, suggest, passwordVars>>

GenerateRecoveryCodes ==
    /\ \E count \in Counts, e \in GenEntropy :
          gen' = [NoGen EXCEPT !.fn = "generateRecoveryCodes", !.count = count,
                     !.codes = generateRecoveryCodes(recoveryCount(count), e)]
    /\ UNCHANGED <<codeVars, now, totpVars, acctVars, derive, suggest, passwordVars>>

GenNext == GenerateSecret \/ GenerateBackupCodes \/ GenerateRecoveryCodes

SpecGen == GenInit /\ [][GenNext]_vars

----------------------------------------------------------------------------
(* The TOTP helpers of twoFactor-fallback.js called on their own:          *)
(* base32Decode on the base32 form of a key, generateTOTP on that secret   *)
(* and a time counter.                                                     *)

\* key lengths in bytes: 80, 128 and 160 bits
KeyLengths == {10, 16, 20}

\* the keys: stretches of the random pool, and the keys of equal bytes 0x00
\* and 0xff
DeriveKeys ==
    { SubSeq(RandomPool[p], from, from + n - 1) :
          p \in DOMAIN RandomPool, from \in 1..MaxOffset, n \in KeyLengths }
    \cup { [i \in 1..n |-> b] : n \in KeyLengths, b \in {0, 255} }

\* the time counters: the steps of the clock, and the first two of the epoch
DeriveCounters == { t \div timeStep : t \in ClockTimes } \cup {0, 1}

DeriveInit ==
    /\ TwoFactorIdle
    /\ gen = NoGen
    /\ suggest = NoSuggest
    /\ PasswordIdle
    /\ \E key \in DeriveKeys, counter \in DeriveCounters :
          derive = [NoDerive EXCEPT !.key = key, !.counter = counter]

\* base32Decode of the key's base32 form
DecodeEncoded ==
    /\ derive' = [derive EXCEPT !.fn = "base32Decode",
                                !.secret = Str(toBase32(derive.key)),
                                !.outcome = base32Decode(Str(toBase32(derive.key)))]
    /\ UNCHANGED <<codeVars, now, totpVars, acctVars, gen, suggest, passwordVars>>

\* generateTOTP of the key's base32 form and the counter
DeriveCode ==
    /\ derive' = [derive EXCEPT !.fn = "generateTOTP",
                                !.secret = Str(toBase32(derive.key)),
                                !.outcome = generateTOTP(Str(toBase32(derive.key)),
                                                         derive.counter)]
    /\ UNCHANGED <<codeVars, now, totpVars, acctVars, gen, suggest, passwordVars>>

DeriveNext == DecodeEncoded \/ DeriveCode

SpecDerive == DeriveInit /\ [][DeriveNext]_vars

----------------------------------------------------------------------------
(* validatePasswordStrength of utils/sanitizer-fallback.js.  A result is   *)
(* [threw, isValid, errors, strength]; strength is "undefined" where the   *)
(* returned object has no such property.                                   *)

\* the bounds on password.length
MinLength == 8
MaxLength == 128

\* the character classes of the regular expressions /[a-z]/, /[A-Z]/, /\d/ and
\* /[!@#$%^&*()_+\-=\[\]{};':"\\|,.<>\/?]/
LowerChars == RangeOf(LowerAlphabet)
UpperChars == RangeOf(UpperAlphabet)
DigitSet == RangeOf(DigitChars)
SpecialChars ==
    {"!", "@", "#", "$", "%", "^", "&", "*", "(", ")", "_", "+", "-", "=",
     "[", "]", "{", "}", ";", "'", ":", "\"", "\\", "|", ",", ".", "<", ">",
     "/", "?"}

\* RegExp.prototype.test of a one-character class: some character is in it
test(class, s) == \E i \in DOMAIN s : s[i] \in class

\* String.prototype.includes
includes(s, sub) ==
    \E i \in 1..(Len(s) - Len(sub) + 1) : \A j \in 1..Len(sub) : s[i + j - 1] = sub[j]

commonPasswords ==
    << <<"p","a","s","s","w","o","r","d">>, <<"1","2","3","4","5","6">>,
       <<"a","d","m","i","n">>, <<"q","w","e","r","t","y">>,
       <<"l","e","t","m","e","i","n">> >>

somePattern_caseSensitive(patterns, s) ==
    \E k \in DOMAIN patterns : includes(s, patterns[k])

\* Array.prototype.some over a list of patterns, on the lower-cased password
somePattern(patterns, s) ==
    LET lower == <<>> \o toLowerCase(s)
    IN \E k \in DOMAIN patterns : includes(lower, patterns[k])

\* errors.push(message) under a condition
pushIf(cond, message) == IF cond THEN <<message>> ELSE <<>>

StrengthThrown == [threw |-> TRUE, isValid |-> FALSE, errors |-> <<>>, strength |-> "undefined"]

\* the function after its type check: for a value that is no string,
\* password.length (null, undefined) or password.toLowerCase (a number, an
\* object, an array) throws a TypeError
strengthChecks(password) ==
    IF password.t # "string" THEN StrengthThrown
    ELSE LET s == password.s
             errors ==
                 pushIf(Len(s) < MinLength, "Password must be at least 8 characters long")
                 \o pushIf(Len(s) > MaxLength, "Password must be less than 128 characters")
                 \o pushIf(~test(LowerChars, s), "Password must contain at least one lowercase letter")
                 \o pushIf(~test(UpperChars, s), "Password must contain at least one uppercase letter")
                 \o pushIf(~test(DigitSet, s), "Password must contain at least one number")
                 \o pushIf(~test(SpecialChars, s), "Password must contain at least one special character")
                 \o pushIf(somePattern(commonPasswords, s), "Password contains common weak patterns")
             n == Len(errors)
         IN [threw |-> FALSE, isValid |-> n = 0, errors |-> errors,
             strength |-> IF n = 0 THEN "strong" ELSE IF n <= 2 THEN "medium" ELSE "weak"]

validatePasswordStrength_noTypeCheck(password) == strengthChecks(password)

\* validatePasswordStrength(password)
validatePasswordStrength(password) ==
    IF password.t # "string"
    THEN [threw |-> FALSE, isValid |-> FALSE,
          errors |-> <<"Password must be a string">>, strength |-> "undefined"]
    ELSE strengthChecks(password)

\* the passwords drawn: pieces of the character classes, one after another,
\* padded with a character of no class to the lengths around the two bounds
Pieces ==
    { <<"a","B">>, <<"4","!">>, <<"a","b">>, <<"C","D">>, <<"4","2">>, <<"!","_">>,
      <<"A","d","m","i","n">> }

RECURSIVE PieceSeqs(_)
PieceSeqs(n) ==
    IF n = 0 THEN { <<>> }
    ELSE LET shorter == PieceSeqs(n - 1)
         IN shorter \cup { s \o p : s \in shorter, p \in Pieces }

Pad(s, n) == IF Len(s) >= n THEN s ELSE s \o [i \in 1..(n - Len(s)) |-> "~"]
PadLengths == {0, MinLength - 1, MinLength, MaxLength, MaxLength + 1}

Short == <<"s","h","o","r","t">>
Str0ngPassw0rd == <<"S","t","r","0","n","g","!","P","a","s","s","w","0","r","d">>

Passwords ==
    { Str(Pad(s, n)) : s \in PieceSeqs(MaxPieces), n \in PadLengths }
    \cup { Str(Short), Str(Str0ngPassw0rd) }
    \cup { Null, Undefined, Num, Obj, Arr(<<>>) }

StrengthInit ==
    /\ TwoFactorIdle
    /\ GenIdle
    /\ \E password \in Passwords : strength = [NoStrength EXCEPT !.password = password]
    /\ passwordHistory = NoHistory
    /\ recorded = NoHistory
    /\ maxHistory = NoCount
    /\ lookup = NoLookup
    /\ policy = NoPolicy

ValidateStrength ==
    /\ ~strength.called
    /\ LET r == validatePasswordStrength(strength.password)
       IN strength' = [called |-> TRUE, password |-> strength.password, threw |-> r.threw,
                       isValid |-> r.isValid, errors |-> r.errors, strength |-> r.strength]
    /\ UNCHANGED <<codeVars, now, totpVars, acctVars, genVars,
                   passwordHistory, recorded, maxHistory, lookup, policy>>

StrengthNext == ValidateStrength

SpecStrength == StrengthInit /\ [][StrengthNext]_vars

----------------------------------------------------------------------------
(* The password history of middleware/passwordPolicy.js: the Map            *)
(* passwordHistory and the two functions on it.                            *)

DefaultHistoryCount == 5
DefaultMaxHistory == 10

historyCountOf(arg) == IF arg.given THEN arg.n ELSE DefaultHistoryCount
maxHistoryOf(arg) == IF arg.given THEN arg.n ELSE DefaultMaxHistory

Min(a, b) == IF a <= b THEN a ELSE b

isPasswordNotInHistory_wholeList(map, userId, password, historyCount) ==
    ~\E i \in 1..Len(map[userId]) : map[userId][i] = password

isPasswordNotInHistory_skipNewest(map, userId, password, historyCount) ==
    ~\E i \in 2..Min(historyCount, Len(map[userId])) : map[userId][i] = password

\* isPasswordNotInHistory(userId, password, historyCount): true unless one of
\* the first min(historyCount, length) entries of the user's array is the password
isPasswordNotInHistory(map, userId, password, historyCount) ==
    LET userHistory == map[userId]
    IN ~\E i \in 1..Min(historyCount, Len(userHistory)) : userHistory[i] = password

addPasswordToHistory_push(map, userId, password, max) ==
    [map EXCEPT ![userId] = SubSeq(map[userId] \o <<password>>, 1,
                                   Min(Len(map[userId]) + 1, max))]

addPasswordToHistory_noSplice(map, userId, password, max) ==
    [map EXCEPT ![userId] = <<password>> \o map[userId]]

\* addPasswordToHistory(userId, password, maxHistory): unshift, then
\* splice(maxHistory) where the array is longer than maxHistory
addPasswordToHistory(map, userId, password, max) ==
    LET unshifted == <<password>> \o map[userId]
    IN [map EXCEPT ![userId] = IF Len(unshifted) > max
                                THEN SubSeq(unshifted, 1, max)
                                ELSE unshifted]

P_ssw0rd1 == <<"P","@","s","s","w","0","r","d","1">>
HistoryPasswords == { Str(P_ssw0rd1), Str(Str0ngPassw0rd) }

\* the maxHistory and historyCount arguments: a number, or none (the default)
KeepArgs == { [given |-> TRUE, n |-> n] : n \in 0..MaxKeep } \cup { NoCount }

HistoryInit ==
    /\ TwoFactorIdle
    /\ GenIdle
    /\ strength = NoStrength
    /\ passwordHistory = NoHistory
    /\ recorded = NoHistory
    /\ maxHistory \in KeepArgs
    /\ lookup = NoLookup
    /\ policy = NoPolicy

RecordPassword ==
    /\ \E userId \in UserIds, password \in HistoryPasswords :
          /\ Len(recorded[userId]) < MaxRecords
          /\ passwordHistory' = addPasswordToHistory(passwordHistory, userId, password,
                                                     maxHistoryOf(maxHistory))
          /\ recorded' = [recorded EXCEPT ![userId] = Append(@, password)]
          /\ lookup' = [fn |-> "addPasswordToHistory", userId |-> userId,
                        password |-> password, limit |-> maxHistory,
                        before |-> passwordHistory, result |-> TRUE]
    /\ UNCHANGED <<codeVars, now, totpVars, acctVars, genVars, strength, maxHistory, policy>>

CheckPassword ==
    /\ \E userId \in UserIds, password \in HistoryPasswords, historyCount \in KeepArgs :
          lookup' = [fn |-> "isPasswordNotInHistory", userId |-> userId,
                     password |-> password, limit |-> historyCount,
                     before |-> passwordHistory,
                     result |-> isPasswordNotInHistory(passwordHistory, userId, password,
                                                       historyCountOf(historyCount))]
    /\ UNCHANGED <<codeVars, now, totpVars, acctVars, genVars, strength,
                   passwordHistory, recorded, maxHistory, policy>>

HistoryNext == RecordPassword \/ CheckPassword

SpecHistory == HistoryInit /\ [][HistoryNext]_vars

----------------------------------------------------------------------------
(* passwordPolicyValidation of middleware/passwordPolicy.js: the middleware *)
(* built from one of the three passwordPolicies.                           *)

adminPatterns ==
    << <<"a","d","m","i","n">>, <<"p","a","s","s","w","o","r","d">>,
       <<"r","o","o","t">>, <<"a","d","m","i","n","i","s","t","r","a","t","o","r">> >>
commonPatterns ==
    adminPatterns \o << <<"s","u","p","e","r">>, <<"m","a","s","t","e","r">> >>

passwordPolicies ==
    [user |-> [minLength |-> 8, maxLength |-> 128, requireUppercase |-> TRUE,
               requireLowercase |-> TRUE, requireNumbers |-> TRUE,
               requireSpecialChars |-> TRUE, checkHistory |-> TRUE,
               historyCount |-> 5, customRules |-> <<>>],
     admin |-> [minLength |-> 12, maxLength |-> 128, requireUppercase |-> TRUE,
                requireLowercase |-> TRUE, requireNumbers |-> TRUE,
                requireSpecialChars |-> TRUE, checkHistory |-> TRUE,
                historyCount |-> 10, customRules |-> <<"adminPatterns">>],
     superAdmin |-> [minLength |-> 16, maxLength |-> 128, requireUppercase |-> TRUE,
                     requireLowercase |-> TRUE, requireNumbers |-> TRUE,
                     requireSpecialChars |-> TRUE, checkHistory |-> TRUE,
                     historyCount |-> 15,
                     customRules |-> <<"commonPatterns", "twoSpecials">>]]

Tiers == DOMAIN passwordPolicies

\* a custom rule applied to the password: true, or the message it returns
RuleOk == [ok |-> TRUE, message |-> ""]
RuleFails(message) == [ok |-> FALSE, message |-> message]
customRule(rule, s) ==
    CASE rule = "adminPatterns" ->
            IF somePattern(adminPatterns, s)
            THEN RuleFails("Password cannot contain common admin patterns") ELSE RuleOk
      [] rule = "commonPatterns" ->
            IF somePattern(commonPatterns, s)
            THEN RuleFails("Password cannot contain common patterns") ELSE RuleOk
      [] rule = "twoSpecials" ->
            IF Cardinality({ i \in DOMAIN s : s[i] \in SpecialChars }) >= 2
            THEN RuleOk ELSE RuleFails("Password must contain at least 2 special characters")

firstFailing_lastRule(rules, s) ==
    IF \E k \in DOMAIN rules : ~customRule(rules[k], s).ok
    THEN CHOOSE k \in DOMAIN rules :
            /\ ~customRule(rules[k], s).ok
            /\ \A j \in (k + 1)..Len(rules) : customRule(rules[j], s).ok
    ELSE 0

\* the first custom rule, in order, that does not return true (0: none)
firstFailing(rules, s) ==
    IF \E k \in DOMAIN rules : ~customRule(rules[k], s).ok
    THEN CHOOSE k \in DOMAIN rules :
            /\ ~customRule(rules[k], s).ok
            /\ \A j \in 1..(k - 1) : customRule(rules[j], s).ok
    ELSE 0

historyError(historyCount) ==
    CASE historyCount = 5 -> "Password cannot be one of your last 5 passwords"
      [] historyCount = 10 -> "Password cannot be one of your last 10 passwords"
      [] historyCount = 15 -> "Password cannot be one of your last 15 passwords"

\* !password: undefined, null and the empty string are falsy
falsy(v) == v.t \in {"undefined", "null"} \/ (v.t = "string" /\ v.s = <<>>)

Reject(map, error, details, str) ==
    [next |-> FALSE, status |-> 400, error |-> error, details |-> details,
     strength |-> str, map |-> map]

\* the middleware after the strength validation: history check, custom rules,
\* recording (with the default maxHistory), next()
policyAfterStrength(options, map, password, userId) ==
    IF options.checkHistory /\ userId # ""
       /\ ~isPasswordNotInHistory(map, userId, password, options.historyCount)
    THEN Reject(map, historyError(options.historyCount), <<>>, "undefined")
    ELSE LET k == firstFailing(options.customRules, password.s)
         IN IF k # 0
            THEN Reject(map, customRule(options.customRules[k], password.s).message,
                        <<>>, "undefined")
            ELSE [next |-> TRUE, status |-> 0, error |-> "", details |-> <<>>,
                  strength |-> "undefined",
                  map |-> IF userId # ""
                          THEN addPasswordToHistory(map, userId, password, DefaultMaxHistory)
                          ELSE map]

policyValidated(options, map, password, userId, validation) ==
    IF ~validation.isValid
    THEN Reject(map, "Password does not meet security requirements",
                validation.errors, validation.strength)
    ELSE policyAfterStrength(options, map, password, userId)

\* passwordPolicyValidation(options)(req, res, next) with req.body = {password, userId};
\* userId "" stands for a request without one
passwordPolicyValidation(options, map, password, userId) ==
    IF falsy(password)
    THEN Reject(map, "Password is required", <<>>, "undefined")
    ELSE policyValidated(options, map, password, userId, validatePasswordStrength(password))

\* the passwords requests carry: the k-th fresh password of an account (16
\* characters, every class, two special characters, no blocked word) ...
Fresh(k) ==
    <<"T","r","0","u","b","4","d","o","u","r","&","3","!","x","y">> \o <<LowerAlphabet[k]>>

\* ... passwords of 8 characters that pass the strength validation, one of them
\* with a word the admin rules block, one with a single special character ...
EightChars == <<"a","B","4","!","a","B","4","_">>
RootEight == <<"R","o","o","t","4","!","x","_">>
OneSpecial == <<"a","B","4","!","a","B","4","2">>
RootOneSpecial == <<"R","o","o","t","4","!","x","y">>
Administrator123 ==
    <<"A","d","m","i","n","i","s","t","r","a","t","o","r","1","2","3","!">>

\* ... and values the middleware turns away before any rule
Unacceptable == { Str(Administrator123), Str(<<>>), Undefined, Num }

\* the passwords of requests without a user id
FixedPasswords ==
    { Str(Fresh(1)), Str(EightChars), Str(RootEight), Str(OneSpecial),
      Str(RootOneSpecial) } \cup Unacceptable

\* how far back a request repeats an accepted password: the most recent one, the
\* oldest one the tier's history check is to cover, and the first one beyond
\* the default maxHistory
ReplayDepths(tier) ==
    {1, passwordPolicies[tier].historyCount, DefaultMaxHistory + 1}

\* the passwords of the requests of an account whose accepted passwords are
\* log (oldest first): a fresh one, a short one, a repeated one, an unacceptable one
AccountPasswords(log, tier) ==
    { Str(Fresh(Len(log) + 1)), Str(EightChars) }
    \cup { log[Len(log) - depth + 1] : depth \in ReplayDepths(tier) \cap (1..Len(log)) }
    \cup { Str(Short), Null }

\* the user id requests carry, if any
PolicyUserId == "u1"

PolicyInit ==
    /\ TwoFactorIdle
    /\ GenIdle
    /\ strength = NoStrength
    /\ passwordHistory = NoHistory
    /\ recorded = NoHistory
    /\ maxHistory = NoCount
    /\ lookup = NoLookup
    /\ \E tier \in Tiers : policy = [NoPolicy EXCEPT !.tier = tier]

\* a request through the middleware of the tier: the response or next(), and
\* the history map the middleware leaves
PolicyRequest(userId, password) ==
    LET r == passwordPolicyValidation(passwordPolicies[policy.tier], passwordHistory,
                                      password, userId)
    IN /\ policy' = [tier |-> policy.tier, called |-> TRUE, userId |-> userId,
                     password |-> password, next |-> r.next, status |-> r.status,
                     error |-> r.error, details |-> r.details, strength |-> r.strength]
       /\ passwordHistory' = r.map
       /\ recorded' = IF r.next /\ userId # ""
                      THEN [recorded EXCEPT ![userId] = Append(@, password)]
                      ELSE recorded
       /\ UNCHANGED <<codeVars, now, totpVars, acctVars, genVars, strength, maxHistory, lookup>>

ChangePassword ==
    /\ Len(recorded[PolicyUserId]) < MaxChanges
    /\ \E password \in AccountPasswords(recorded[PolicyUserId], policy.tier) :
          PolicyRequest(PolicyUserId, password)

ValidatePassword ==
    \E password \in FixedPasswords : PolicyRequest("", password)

PolicyNext == ChangePassword \/ ValidatePassword

SpecPolicy == PolicyInit /\ [][PolicyNext]_vars

----------------------------------------------------------------------------
(* generatePasswordSuggestions and generateSecurePassword of               *)
(* middleware/passwordPolicy.js.  Math.random is a source of numbers read  *)
(* in order; what sort() makes of a comparator that answers at random is   *)
(* left to the engine: one of the rearrangements in Shuffles.              *)

\* the default of the length parameter, and the number of suggestions
DefaultLength == 12
SuggestionCount == 3

special ==
    <<"!", "@", "#", "$", "%", "^", "&", "*", "(", ")", "_", "+", "-", "=",
      "[", "]", "{", "}", "|", ";", ":", ",", ".", "<", ">", "?">>
allChars == LowerAlphabet \o UpperAlphabet \o DigitChars \o special

\* the k-th number Math.random() returns, as a numerator over RandomScale
randomAt(random, k) == random[((k - 1) % Len(random)) + 1]

\* chars[Math.floor(Math.random() * chars.length)]
charAt(chars, r) == chars[((r * Len(chars)) \div RandomScale) + 1]

\* password.split('').sort(() => Math.random() - 0.5).join('')
shuffled(password, shuffle) ==
    LET n == Len(password)
        rotated == [i \in 1..n |-> password[((i - 1 + shuffle.rotate) % n) + 1]]
    IN IF shuffle.reverse THEN [i \in 1..n |-> rotated[n + 1 - i]] ELSE rotated

generateSecurePassword_fillFromThree(length, random, from, shuffle) ==
    LET password ==
            << charAt(LowerAlphabet, randomAt(random, from + 1)),
               charAt(UpperAlphabet, randomAt(random, from + 2)),
               charAt(DigitChars, randomAt(random, from + 3)) >>
            \o [i \in 1..(IF length > 3 THEN length - 3 ELSE 0) |->
                    charAt(allChars, randomAt(random, from + 3 + i))]
    IN <<>> \o shuffled(password, shuffle)

\* generateSecurePassword(length), Math.random() read from its from-th number
\* on: one character of each class, then allChars for i = 4 .. length - 1
generateSecurePassword(length, random, from, shuffle) ==
    LET password ==
            << charAt(LowerAlphabet, randomAt(random, from + 1)),
               charAt(UpperAlphabet, randomAt(random, from + 2)),
               charAt(DigitChars, randomAt(random, from + 3)),
               charAt(special, randomAt(random, from + 4)) >>
            \o [i \in 1..(IF length > 4 THEN length - 4 ELSE 0) |->
                    charAt(allChars, randomAt(random, from + 4 + i))]
    IN <<>> \o shuffled(password, shuffle)

\* generatePasswordSuggestions(length = 12): three passwords, each with the
\* strength validatePasswordStrength gives it
generatePasswordSuggestions(length, random, shuffle) ==
    <<>> \o [i \in 1..SuggestionCount |->
                LET password == generateSecurePassword(length, random,
                                                       (i - 1) * (length + 1), shuffle)
                IN [password |-> password,
                    strength |-> validatePasswordStrength(Str(password)).strength]]

lengthOf(arg) == IF arg.given THEN arg.n ELSE DefaultLength

\* the arguments of a call: a length or none, a count or none (the function
\* has one parameter; a second argument is not read)
SuggestLengths == { [given |-> TRUE, n |-> n] : n \in 0..MaxSuggestLength } \cup { NoCount }
RandomNumbers == {0, 3, RandomScale - 1}
RandomSources == [1..2 -> RandomNumbers]
Shuffles == [rotate : 0..MaxRotate, reverse : BOOLEAN]

SuggestInit ==
    /\ TwoFactorIdle
    /\ gen = NoGen
    /\ derive = NoDerive
    /\ PasswordIdle
    /\ \E length \in SuggestLengths, count \in Counts,
          random \in RandomSources, shuffle \in Shuffles :
          suggest = [NoSuggest EXCEPT !.length = length, !.count = count,
                                      !.random = random, !.shuffle = shuffle]

GeneratePasswordSuggestions ==
    /\ suggest' = [suggest EXCEPT
                      !.fn = "generatePasswordSuggestions",
                      !.suggestions = generatePasswordSuggestions(lengthOf(suggest.length),
                                          suggest.random, suggest.shuffle)]
    /\ UNCHANGED <<codeVars, now, totpVars, acctVars, gen, derive, passwordVars>>

SuggestNext == GeneratePasswordSuggestions

SpecSuggest == SuggestInit /\ [][SuggestNext]_vars

----------------------------------------------------------------------------
(* Properties of code consumption (checked under SpecCodes) *)

\* the sequence without its i-th entry, the other entries in their order
RemoveAt(seq, i) == [j \in 1..(Len(seq) - 1) |-> IF j < i THEN seq[j] ELSE seq[j + 1]]

\* how many entries of a sequence equal x
CountOf(seq, x) == Cardinality({ i \in DOMAIN seq : seq[i] = x })

IsCodeCall == call.fn \in {"verifyBackupCode", "verifyRecoveryCode"}

\* C2: a backup or recovery code, once consumed by a successful call, never
\* verifies again: every submitted code that has returned valid=true is refused
\* by a further call against the list as it now stands.
C2_ConsumedNeverVerifiesAgain ==
    \A x \in spent :
        /\ x.fn = "verifyBackupCode" => ~verifyBackupCode(x.code, backupList).valid
        /\ x.fn = "verifyRecoveryCode" => ~verifyRecoveryCode(x.code, recoveryList).valid

\* C7: verifyBackupCode(submitted, codes): when the normalized submitted code is
\* in the list, the call returns valid=true and the list is the old one with
\* exactly one matching entry removed, the others kept in order; when it is
\* not, the call returns valid=false and the list is unchanged.
C7_ExactlyOneMatchRemoved ==
    (call.fn = "verifyBackupCode" /\ call.before.t = "array") =>
        LET old == call.before.a
            r == call.result
            present == /\ call.code.t = "string"
                       /\ \E i \in DOMAIN old : old[i] = trim(toUpperCase(call.code.s))
        IN IF present
           THEN /\ r.valid
                /\ r.updated.t = "array"
                /\ \E i \in DOMAIN old :
                      /\ old[i] = trim(toUpperCase(call.code.s))
                      /\ r.updated.a = RemoveAt(old, i)
                /\ r.remainingCodes = Len(old) - 1
                /\ backupList = r.updated
           ELSE ~r.valid /\ backupList = call.before

\* C7 witness: a code was consumed from the middle or the end of a list that
\* holds other codes too.
C7_Witness ==
    /\ call.fn = "verifyBackupCode"
    /\ call.result.valid
    /\ Len(call.before.a) >= 2
    /\ indexOf(call.before.a, trim(toUpperCase(call.code.s))) >= 1
    /\ \E i \in DOMAIN call.before.a : call.before.a[i] # trim(toUpperCase(call.code.s))

\* C8: a submitted code that differs from a stored code only by letter case or
\* surrounding whitespace is accepted and consumes that stored code (one copy
\* fewer of it in the list).
C8_CaseAndWhitespaceIgnored ==
    (IsCodeCall /\ call.before.t = "array") =>
        \A i \in DOMAIN call.before.a :
            call.code \in Typed(call.before.a[i]) =>
                /\ call.result.valid
                /\ call.result.updated.t = "array"
                /\ CountOf(call.result.updated.a, call.before.a[i])
                     = CountOf(call.before.a, call.before.a[i]) - 1

\* C8 witness: a backup code typed in lower case with whitespace around it,
\* which is no entry of the list as typed, was accepted.
C8_Witness ==
    /\ call.fn = "verifyBackupCode"
    /\ call.result.valid
    /\ \A i \in DOMAIN call.before.a : call.before.a[i] # call.code.s
    /\ call.code.s # toUpperCase(call.code.s)
    /\ call.code.s # trim(call.code.s)

\* C9: a codes argument that is no list yields valid=false with the format
\* error tag, without a throw and without a change of the argument.
C9_NonListRejected ==
    (IsCodeCall /\ call.before.t # "array") =>
        /\ ~call.result.valid
        /\ ~call.result.threw
        /\ call.result.error \in {"Invalid backup codes format",
                                  "Invalid recovery codes format"}
        /\ call.result.after = call.before
        /\ (call.fn = "verifyBackupCode" => backupList = call.before)
        /\ (call.fn = "verifyRecoveryCode" => recoveryList = call.before)

\* C9 witness: verifyBackupCode was called with null for the list.
C9_Witness ==
    /\ call.fn = "verifyBackupCode"
    /\ call.before = Null
    /\ call.code.t = "string"

----------------------------------------------------------------------------
(* Properties of token verification (checked under SpecTotp) *)

\* C1: verify2FAToken(token, secret, window) returns true if and only if the
\* token is the 6-digit code derived from the secret for a counter c + offset
\* with offset in [-window, window], c = floor(unixSeconds / 30); so the code of
\* the current time-step is accepted and stays accepted while the clock is at
\* most `window` steps away.
C1_AcceptsExactlyTheWindow ==
    (totp.called /\ totp.secret \in Secrets) =>
        (totp.outcome.value <=>
            \E offset \in (0 - totp.window)..totp.window :
                totp.token = totpCode(totp.secret, (totp.at \div timeStep) + offset).value)

\* C10: verify2FAToken never lets an exception reach its caller: a call returns,
\* and it returns false for a malformed secret or a token that is no number.
C10_NeverThrows ==
    totp.called =>
        /\ ~totp.outcome.threw
        /\ (totp.secret \in MalformedSecrets \/ ~IsNumericToken(totp.token))
              => totp.outcome.value = FALSE

\* C10 witness: a call with a secret that is no string (base32Decode throws
\* inside the try block) has returned false.
C10_Witness ==
    /\ totp.called
    /\ totp.secret = Null
    /\ IsNumericToken(totp.token)
    /\ totp.outcome = Returned(FALSE)

----------------------------------------------------------------------------
(* Properties of the routes *)

Pending(row) == ~row.twoFactorEnabled /\ TruthyString(row.twoFactorSecret)

\* a step that handles a request (the clock stands still)
RequestStep(route) == now' = now /\ res'.route = route /\ res'.status # 429

\* the token of the request verifies as TOTP token against the secret stored
TotpAccepts == /\ TruthyString(user.twoFactorSecret)
               /\ Verify2FATokenOf(utils, res'.token, user.twoFactorSecret,
                                   DefaultWindow, now).value

\* the token of the request, upper-cased and trimmed, is a stored backup code
BackupAccepts == /\ res'.token.t = "string"
                 /\ \E i \in DOMAIN StoredCodes(user) :
                       StoredCodes(user)[i] = trim(toUpperCase(res'.token.s))

\* C3: twoFactorEnabled turns from false to true only in a step that is a
\* POST /verify request whose token verify2FAToken accepts against the secret
\* stored for the account; the secret stays the one verified.
C3_EnabledOnlyByVerifiedToken ==
    [][ (~user.twoFactorEnabled /\ user'.twoFactorEnabled) =>
            /\ RequestStep("verify")
            /\ TotpAccepts
            /\ user'.twoFactorSecret = user.twoFactorSecret ]_vars

\* a POST /verify that enabled 2FA on a pending account
C3_Witness ==
    /\ res.route = "verify" /\ res.status = 200 /\ res.totpOk
    /\ Pending(res.pre)
    /\ user.twoFactorEnabled

\* C4: twoFactorEnabled turns from true to false only in a step that is a
\* POST /disable request whose token verifies as TOTP token or is a stored
\* backup code; a POST /disable with neither leaves the row as it was.
C4_DisabledOnlyByTokenOrBackupCode ==
    [][ /\ (user.twoFactorEnabled /\ ~user'.twoFactorEnabled) =>
                (RequestStep("disable") /\ (TotpAccepts \/ BackupAccepts))
        /\ (RequestStep("disable") /\ ~(TotpAccepts \/ BackupAccepts)) =>
                user' = user ]_vars

\* a POST /disable on an enabled account with a well-formed token that is
\* neither: refused, the row as before
C4_Witness ==
    /\ res.route = "disable" /\ res.status = 400
    /\ res.error = "Invalid token or backup code"
    /\ res.pre.twoFactorEnabled
    /\ user = res.pre

\* C5: a POST /verify on a pending account that submits the code of the
\* current time step for the stored secret enables 2FA and stores 10 backup
\* codes (the first leg of the end-to-end scenario).
C5_CurrentCodeEnables ==
    [][ (/\ RequestStep("verify")
         /\ Pending(user)
         /\ res'.token = totpCode(user.twoFactorSecret, now \div timeStep).value) =>
            /\ user'.twoFactorEnabled
            /\ Len(StoredCodes(user')) = DefaultBackupCount ]_vars

----------------------------------------------------------------------------
(* Properties of the generators (checked under SpecGen) *)

\* C11: generate2FASecret returns a non-empty base32 secret without padding:
\* every character of it is in A-Z2-7, so base32Decode uses every character
\* (5 bits each); manualEntryKey and the URI's secret parameter are the same
\* string.
C11_SecretIsBase32 ==
    gen.fn = "generate2FASecret" =>
        /\ gen.secret # <<>>
        /\ \A i \in DOMAIN gen.secret : gen.secret[i] \in Base32Chars
        /\ Len(base32Decode(Str(gen.secret)).bytes) = (5 * Len(gen.secret)) \div 8
        /\ gen.key = gen.secret
        /\ gen.url.secret = gen.secret

UpperHexChars == RangeOf(toUpperCase(HexChars))

\* C12: generateBackupCodes(count) returns exactly count codes (10 when no
\* count is given), each of 8 characters out of 0-9A-F.
C12_CountCodesOfEightHex ==
    gen.fn = "generateBackupCodes" =>
        /\ Len(gen.codes) = (IF gen.count.given THEN gen.count.n ELSE 10)
        /\ \A i \in DOMAIN gen.codes :
              /\ Len(gen.codes[i]) = 8
              /\ \A j \in DOMAIN gen.codes[i] : gen.codes[i][j] \in UpperHexChars

\* the default batch, with a code that has a letter in it
C12_Witness ==
    /\ gen.fn = "generateBackupCodes"
    /\ ~gen.count.given
    /\ Len(gen.codes) = 10
    /\ \E i \in DOMAIN gen.codes : \E j \in DOMAIN gen.codes[i] :
          gen.codes[i][j] \in {"A", "B", "C", "D", "E", "F"}

----------------------------------------------------------------------------
(* Properties of validatePasswordStrength (checked under SpecStrength) *)

\* the rules a password string violates, by the message of each
Blocklisted(s) ==
    \E i \in DOMAIN s : \E k \in DOMAIN commonPasswords :
        /\ i + Len(commonPasswords[k]) - 1 <= Len(s)
        /\ \A j \in DOMAIN commonPasswords[k] :
              LowerChar(s[i + j - 1]) = commonPasswords[k][j]
ViolatedRules(s) ==
    (IF Len(s) < 8 THEN {"Password must be at least 8 characters long"} ELSE {})
    \cup (IF Len(s) > 128 THEN {"Password must be less than 128 characters"} ELSE {})
    \cup (IF RangeOf(s) \cap LowerChars = {}
          THEN {"Password must contain at least one lowercase letter"} ELSE {})
    \cup (IF RangeOf(s) \cap UpperChars = {}
          THEN {"Password must contain at least one uppercase letter"} ELSE {})
    \cup (IF RangeOf(s) \cap DigitSet = {}
          THEN {"Password must contain at least one number"} ELSE {})
    \cup (IF RangeOf(s) \cap SpecialChars = {}
          THEN {"Password must contain at least one special character"} ELSE {})
    \cup (IF Blocklisted(s) THEN {"Password contains common weak patterns"} ELSE {})

StrengthOfString == strength.called /\ strength.password.t = "string"

\* C13: for a string, isValid holds exactly when the length is within 8..128,
\* all four character classes are present and no blocklisted substring occurs
\* (ignoring case); errors holds exactly one message per violated rule, all of
\* them at once: "short" reports length, uppercase, digit and special,
\* "Str0ng!Passw0rd" reports none.
C13_ValidIffEveryRuleHolds ==
    StrengthOfString =>
        LET s == strength.password.s
        IN /\ strength.isValid <=> ViolatedRules(s) = {}
           /\ RangeOf(strength.errors) = ViolatedRules(s)
           /\ Len(strength.errors) = Cardinality(ViolatedRules(s))
           /\ s = Short =>
                RangeOf(strength.errors) =
                    {"Password must be at least 8 characters long",
                     "Password must contain at least one uppercase letter",
                     "Password must contain at least one number",
                     "Password must contain at least one special character"}
           /\ s = Str0ngPassw0rd => strength.errors = <<>> /\ strength.isValid

\* a password of 129 characters that also holds a blocklisted word in mixed case
C13_Witness ==
    /\ StrengthOfString
    /\ Len(strength.password.s) = 129
    /\ Len(strength.errors) >= 2
    /\ "Password contains common weak patterns" \in RangeOf(strength.errors)
    /\ "Password must be less than 128 characters" \in RangeOf(strength.errors)

\* C14: strength is "strong" exactly when there is no error, "medium" exactly
\* when there are 1 or 2, "weak" exactly when there are 3 or more; isValid
\* holds exactly when strength is "strong".
C14_StrengthFollowsErrorCount ==
    strength.called =>
        /\ strength.strength = "strong" <=> Len(strength.errors) = 0
        /\ strength.strength = "medium" <=> Len(strength.errors) \in {1, 2}
        /\ strength.strength = "weak" <=> Len(strength.errors) >= 3
        /\ strength.isValid <=> strength.strength = "strong"

\* C15: validatePasswordStrength never throws; for an input that is no string
\* it returns isValid = false and the type error message.
C15_NeverThrowsNonStringInvalid ==
    strength.called =>
        /\ ~strength.threw
        /\ strength.password.t # "string" =>
              /\ ~strength.isValid
              /\ strength.errors = <<"Password must be a string">>

C15_Witness ==
    /\ strength.called
    /\ strength.password = Null
    /\ strength.errors = <<"Password must be a string">>

----------------------------------------------------------------------------
(* Properties of the password history (checked under SpecHistory) *)

\* the n most recent entries of a log kept oldest first, most recent first
MostRecent(log, n) == [i \in 1..Min(n, Len(log)) |-> log[Len(log) - i + 1]]

\* C16: after any sequence of addPasswordToHistory calls with one maxHistory,
\* a user's array is exactly the most recent min(n, maxHistory) of the n
\* passwords recorded, most recent first; its length never exceeds maxHistory.
C16_HistoryKeepsMostRecent ==
    \A u \in UserIds :
        /\ passwordHistory[u] = MostRecent(recorded[u], maxHistoryOf(maxHistory))
        /\ Len(passwordHistory[u]) <= maxHistoryOf(maxHistory)

\* a call that evicted the oldest of a full array
C16_Witness ==
    /\ lookup.fn = "addPasswordToHistory"
    /\ maxHistoryOf(maxHistory) >= 2
    /\ Len(lookup.before[lookup.userId]) = maxHistoryOf(maxHistory)
    /\ Len(passwordHistory[lookup.userId]) = maxHistoryOf(maxHistory)
    /\ passwordHistory[lookup.userId][1] = lookup.password
    /\ lookup.before[lookup.userId][Len(lookup.before[lookup.userId])] # lookup.password

\* the positions of a user's array that hold the candidate, 1 the most recent
HeldAt(map, u, candidate) == { i \in DOMAIN map[u] : map[u][i] = candidate }

\* C17: isPasswordNotInHistory(userId, candidate, historyCount) is false if the
\* candidate is among the historyCount most recent entries of that user's
\* history, and in no other case: not for an older entry of the user, not for
\* an entry of another user.
C17_FalseOnlyForRecentOwnEntry ==
    lookup.fn = "isPasswordNotInHistory" =>
        (lookup.result = FALSE <=>
            \E i \in HeldAt(lookup.before, lookup.userId, lookup.password) :
                i <= historyCountOf(lookup.limit))

\* a candidate held only beyond the limit, and held by the other user too, passes
C17_Witness ==
    /\ lookup.fn = "isPasswordNotInHistory"
    /\ lookup.result = TRUE
    /\ HeldAt(lookup.before, lookup.userId, lookup.password) # {}
    /\ \E u \in UserIds \ {lookup.userId} : 1 \in HeldAt(lookup.before, u, lookup.password)

\* the last history call is a check, with the default historyCount, of a user
\* whose passwords were recorded with the default maxHistory
DefaultCheckAfterRecord ==
    /\ lookup.fn = "isPasswordNotInHistory"
    /\ ~lookup.limit.given
    /\ ~maxHistory.given
    /\ recorded[lookup.userId] # <<>>

LastRecorded(u) == recorded[u][Len(recorded[u])]

\* C18 (as stated): after addPasswordToHistory(acct, p), isPasswordNotInHistory(acct, p)
\* is true, and isPasswordNotInHistory(acct, q) is false for a different password q.
C18_RecordedIsReusable ==
    DefaultCheckAfterRecord =>
        (lookup.result = TRUE <=> lookup.password = LastRecorded(lookup.userId))

\* C18 (amended): after addPasswordToHistory(acct, p), isPasswordNotInHistory(acct, p)
\* is false, and isPasswordNotInHistory(acct, q) is true for a different password q
\* that is not among the recent entries of acct.
C18_RecordedIsNotReusable ==
    DefaultCheckAfterRecord =>
        /\ lookup.password = LastRecorded(lookup.userId) => lookup.result = FALSE
        /\ lookup.password \notin RangeOf(recorded[lookup.userId]) => lookup.result = TRUE

\* the password just recorded is checked and refused; another one passes
C18_Witness ==
    /\ DefaultCheckAfterRecord
    /\ lookup.password = LastRecorded(lookup.userId)
    /\ lookup.result = FALSE

----------------------------------------------------------------------------
(* Properties of the policy middleware (checked under SpecPolicy) *)

\* C19: the middleware of a tier lets no password through that is shorter
\* than the tier's minimum length: 12 characters for admin, 16 for superAdmin
\* (8 for user), whatever the base strength validation says of it.
C19_TierMinimumLength ==
    (policy.called /\ policy.next) =>
        Len(policy.password.s) >= passwordPolicies[policy.tier].minLength

\* C20: over any sequence of accepted password changes of an account, the
\* middleware of a tier lets no password through that is one of the account's
\* historyCount most recently accepted ones: 15 for superAdmin, 10 for admin,
\* 5 for user.
C20_TierHistoryDepth ==
    [][ (policy'.called /\ policy'.next /\ policy'.userId # "") =>
            policy'.password \notin
                RangeOf(MostRecent(recorded[policy'.userId],
                                   passwordPolicies[policy'.tier].historyCount)) ]_vars

\* the checks of a tier on a password that is given, in the order the claim
\* states them: strength validation, the history check when a user id comes with
\* the request, each custom rule of the tier; each with whether the password
\* passes it and the reason it gives otherwise
PolicyChecks(tier, map, password, userId) ==
    << [ok |-> validatePasswordStrength(password).isValid,
        reason |-> "Password does not meet security requirements"] >>
    \o (IF userId # ""
        THEN << [ok |-> \A i \in HeldAt(map, userId, password) :
                            i > passwordPolicies[tier].historyCount,
                 reason |-> historyError(passwordPolicies[tier].historyCount)] >>
        ELSE << >>)
    \o [k \in DOMAIN passwordPolicies[tier].customRules |->
            [ok |-> customRule(passwordPolicies[tier].customRules[k], password.s).ok,
             reason |-> customRule(passwordPolicies[tier].customRules[k], password.s).message]]

FailedChecks(checks) == { k \in DOMAIN checks : ~checks[k].ok }

\* C21: the middleware applies strength validation, then the history check
\* (only with a user id), then each custom rule in list order; it answers with
\* the reason of the first check that fails, and calls next() only if every
\* check passes. The admin tier rejects "Administrator123!".
C21_FirstFailingCheckDecides ==
    [][ (policy'.called /\ ~falsy(policy'.password)) =>
            LET checks == PolicyChecks(policy'.tier, passwordHistory,
                                       policy'.password, policy'.userId)
                failed == FailedChecks(checks)
            IN /\ policy'.next <=> failed = {}
               /\ failed # {} =>
                     /\ policy'.status = 400
                     /\ \E k \in failed :
                           /\ \A j \in failed : k <= j
                           /\ policy'.error = checks[k].reason
               /\ (policy'.tier = "admin" /\ policy'.password = Str(Administrator123))
                     => ~policy'.next ]_vars

\* a superAdmin request whose password passes the strength validation and fails
\* both custom rules is answered with the first rule's reason
C21_Witness ==
    /\ policy.called
    /\ policy.tier = "superAdmin"
    /\ policy.password = Str(RootOneSpecial)
    /\ policy.error = "Password cannot contain common patterns"
    /\ ~policy.next

\* C29: a request the middleware rejects (strength validation, history check or
\* custom rule) leaves every user's history list as it was; a request it lets
\* through with a user id changes that user's list only, putting the password
\* in front of the entries held (of which the default maxHistory keeps 10, C16);
\* one let through without a user id changes nothing.
C29_HistoryChangesOnlyOnAccept ==
    [][ policy'.called =>
            IF policy'.next /\ policy'.userId # ""
            THEN /\ \A u \in UserIds \ {policy'.userId} :
                       passwordHistory'[u] = passwordHistory[u]
                 /\ passwordHistory'[policy'.userId] =
                       SubSeq(<<policy'.password>> \o passwordHistory[policy'.userId], 1,
                              Min(Len(passwordHistory[policy'.userId]) + 1,
                                  DefaultMaxHistory))
            ELSE passwordHistory' = passwordHistory ]_vars

\* an accepted change of an account that already has a history
C29_Witness ==
    /\ policy.called
    /\ policy.next
    /\ policy.userId = PolicyUserId
    /\ Len(passwordHistory[PolicyUserId]) >= 2
    /\ passwordHistory[PolicyUserId][1] = policy.password

----------------------------------------------------------------------------
(* Properties of the account's row (checked under SpecLibrary) *)

\* C25: while twoFactorEnabled is true the stored secret does not change: a
\* POST /setup on an enabled account is refused and writes nothing, no step
\* between two enabled states changes the secret, and a new secret is stored
\* only by a POST /setup on an account that is not enabled (after a disable,
\* for an account that was).
C25_SecretFixedWhileEnabled ==
    [][ /\ (user.twoFactorEnabled /\ user'.twoFactorEnabled) =>
                user'.twoFactorSecret = user.twoFactorSecret
        /\ (RequestStep("setup") /\ user.twoFactorEnabled) =>
                (user' = user /\ res'.status = 400)
        /\ (user'.twoFactorSecret # user.twoFactorSecret
                /\ TruthyString(user'.twoFactorSecret)) =>
                (RequestStep("setup") /\ ~user.twoFactorEnabled) ]_vars

\* a POST /setup on an enabled account: refused, the row as before
C25_Witness ==
    /\ res.route = "setup" /\ res.status = 400
    /\ res.pre.twoFactorEnabled
    /\ TruthyString(res.pre.twoFactorSecret)
    /\ user = res.pre

\* C26: in every state of the account reached by setup, verify, disable,
\* verify-login and regenerate-backup-codes requests, twoFactorEnabled = true
\* implies that twoFactorSecret is not null, so that is2FAConfigured is true.
C26_EnabledHasSecret ==
    user.twoFactorEnabled =>
        /\ user.twoFactorSecret # Null
        /\ TruthyString(user.twoFactorSecret)
        /\ is2FAConfigured(user)

\* an enabled account that has since answered a POST /disable
C26_Witness ==
    /\ user.twoFactorEnabled
    /\ res.route = "disable"
    /\ res.pre.twoFactorEnabled
    /\ res.status # 429

\* C28: POST /regenerate-backup-codes answers 200 only on an enabled account
\* and with a token that verifies against the stored secret; the list stored
\* afterwards is exactly the batch generated (the 10 codes of the response),
\* nothing else of the row changes; any other answer leaves the row as it was.
C28_RegenerateReplacesBatch ==
    [][ RequestStep("regenerate-backup-codes") =>
            IF res'.status = 200
            THEN /\ user.twoFactorEnabled
                 /\ TotpAccepts
                 /\ \E e \in BatchEntropy :
                        StoredCodes(user') = generateBackupCodes(DefaultBackupCount, e)
                 /\ Arr(StoredCodes(user')) = res'.data.backupCodes
                 /\ user' = [user EXCEPT !.backupCodes = user'.backupCodes]
            ELSE user' = user ]_vars

\* a regeneration that replaced a stored batch by a different one
C28_Witness ==
    /\ res.route = "regenerate-backup-codes" /\ res.status = 200
    /\ Len(StoredCodes(res.pre)) = DefaultBackupCount
    /\ Len(StoredCodes(user)) = DefaultBackupCount
    /\ RangeOf(StoredCodes(user)) \cap RangeOf(StoredCodes(res.pre)) = {}

\* the lists of codes an account's row holds: the users table has one column
\* for codes, backupCodes
CredentialPools(row) == { StoredCodes(row) }

----------------------------------------------------------------------------
(* Properties of the TOTP helpers (checked under SpecDerive) *)

\* C23: generateTOTP completes for every valid secret and counter and returns
\* a string of 6 decimal digits (derived from the HMAC over the counter's
\* 8-byte big-endian encoding).
C23_GenerateTOTPReturnsSixDigits ==
    derive.fn = "generateTOTP" =>
        /\ ~derive.outcome.threw
        /\ IsNumericToken(derive.outcome.value)

\* C30: for every byte string of length 10, 16 or 20, base32Decode of its
\* RFC 4648 base32 encoding without padding returns the original bytes; the
\* 32-bit accumulator overflows on all of them.
C30_DecodeInvertsEncode ==
    derive.fn = "base32Decode" =>
        /\ ~derive.outcome.threw
        /\ derive.outcome.bytes = derive.key

\* a 20-byte key of high bytes decoded from its 32 characters
C30_Witness ==
    /\ derive.fn = "base32Decode"
    /\ derive.key = [i \in 1..20 |-> 255]
    /\ derive.secret = Str([i \in 1..32 |-> "7"])
    /\ derive.outcome.bytes = derive.key

----------------------------------------------------------------------------
(* Properties of the password suggestions (checked under SpecSuggest) *)

\* a password with a lowercase letter, an uppercase letter, a digit and a
\* special character
HasEveryClass(password) ==
    /\ test(LowerChars, password)
    /\ test(UpperChars, password)
    /\ test(DigitSet, password)
    /\ test(SpecialChars, password)

\* each suggestion is a password of n characters with every class, paired
\* with the strength validatePasswordStrength computes for it
SuggestionsOf(n) ==
    \A i \in DOMAIN suggest.suggestions :
        LET s == suggest.suggestions[i]
        IN /\ Len(s.password) = n
           /\ HasEveryClass(s.password)
           /\ s.strength = validatePasswordStrength(Str(s.password)).strength
           /\ s.strength \in {"weak", "medium", "strong"}

\* C22: suggestPasswords(length, count) returns exactly count suggestions
\* (3 by default), each a password of exactly length characters (12 by
\* default) with at least one lowercase letter, uppercase letter, digit and
\* special character, paired with its validatePasswordStrength strength.
C22_CountSuggestionsOfLength ==
    suggest.fn = "generatePasswordSuggestions" =>
        /\ Len(suggest.suggestions) =
               (IF suggest.count.given THEN suggest.count.n ELSE SuggestionCount)
        /\ SuggestionsOf(lengthOf(suggest.length))

\* C22 (amended): the function returns exactly 3 suggestions whatever count
\* is passed, each a password of exactly length characters when length is at
\* least 4 (of 4 characters when it is less), with at least one character of
\* every class, paired with its validatePasswordStrength strength.
C22_ThreeSuggestionsOfLength ==
    suggest.fn = "generatePasswordSuggestions" =>
        /\ Len(suggest.suggestions) = 3
        /\ SuggestionsOf(IF lengthOf(suggest.length) >= 4
                         THEN lengthOf(suggest.length) ELSE 4)

\* a call for 8 characters and 4 suggestions that returned 3 of 8 characters
C22_Witness ==
    /\ suggest.fn = "generatePasswordSuggestions"
    /\ suggest.length = [given |-> TRUE, n |-> 8]
    /\ suggest.count = [given |-> TRUE, n |-> 4]
    /\ Len(suggest.suggestions) = 3
    /\ \A i \in 1..3 : Len(suggest.suggestions[i].password) = 8
    /\ suggest.suggestions[1].password # suggest.suggestions[2].password

=============================================================================
